---- MODULE Spec2Model ----
(***************************************************************************)
(* A model of the valuable-value crate: the Value type with its equality,  *)
(* its linear order and its meaningful partial order (src/value.rs), the   *)
(* compact codec (src/compact) and the human-readable codec (src/human).   *)
(*                                                                         *)
(* A Value is a pair <<tag, payload>>.  An i64 and the bits of an f64 are  *)
(* sequences of eight bytes, most significant first, so that all 64 bits   *)
(* are kept.  A BTreeMap is the sequence of its entries <<key, value>> in  *)
(* ascending key order.                                                    *)
(***************************************************************************)
EXTENDS Integers, Sequences, FiniteSets, TLC

VARIABLES
  a, b, c,      \* the values an operation is applied to
  op,           \* the operation that ran last
  res,          \* its result, for the operations of value.rs
  tv,           \* a TestValue
  indentation,  \* the indentation handed to the human-readable serializer
  out,          \* the serializer's output buffer
  input,        \* the deserializer's input
  decoded,      \* the deserializer's result and final position
  p,            \* a ParserHelper: its input and its position
  serializer,   \* a human-readable VVSerializer at work
  collections   \* the collections it has started and not ended, innermost last

vars == <<a, b, c, op, res, tv, indentation, out, input, decoded, p,
          serializer, collections>>

-----------------------------------------------------------------------------
(* Bounds of the explored inputs. *)

MaxLen == 2
MaxEntries == 2

-----------------------------------------------------------------------------
(* The Value enum. *)

TNil == 0
TBool == 1
TFloat == 2
TInt == 3
TArray == 4
TMap == 5

Nil == <<TNil, 0>>
Bool(x) == <<TBool, x>>
Float(bits) == <<TFloat, bits>>
Int64(bytes) == <<TInt, bytes>>
Array(v) == <<TArray, v>>
Map(m) == <<TMap, m>>

tag(v) == v[1]
payload(v) == v[2]

Min(x, y) == IF x <= y THEN x ELSE y
Max(x, y) == IF x >= y THEN x ELSE y

(* Two's complement big-endian bytes of a small integer, as i64. *)
i64(n) ==
  LET ext == IF n < 0 THEN 255 ELSE 0
      m == IF n < 0 THEN n + 2147483647 + 1 ELSE n
      top == IF n < 0 THEN (m \div 16777216) + 128 ELSE m \div 16777216
  IN <<ext, ext, ext, ext, top, (m \div 65536) % 256, (m \div 256) % 256, m % 256>>

(* f64 bit patterns. *)
NAN == <<127, 248, 0, 0, 0, 0, 0, 0>>
NAN_ONES == <<255, 255, 255, 255, 255, 255, 255, 255>>
NEG_INFINITY == <<255, 240, 0, 0, 0, 0, 0, 0>>
NEG_ONE_HALF == <<191, 248, 0, 0, 0, 0, 0, 0>>
NEG_ZERO == <<128, 0, 0, 0, 0, 0, 0, 0>>
POS_ZERO == <<0, 0, 0, 0, 0, 0, 0, 0>>
ONE_HALF == <<63, 248, 0, 0, 0, 0, 0, 0>>
NEG_TWO_HALF == <<192, 4, 0, 0, 0, 0, 0, 0>>
TWO_HALF == <<64, 4, 0, 0, 0, 0, 0, 0>>
INFINITY == <<127, 240, 0, 0, 0, 0, 0, 0>>

is_nan(bits) ==
  /\ bits[1] % 128 = 127
  /\ bits[2] >= 240
  /\ \/ bits[2] > 240
     \/ \E i \in 3..8 : bits[i] # 0

(* Lexicographic comparison of two byte strings of the same length. *)
cmp_bytes(x, y) ==
  IF x = y THEN "Equal"
  ELSE LET i == CHOOSE k \in 1..Len(x) : x[k] # y[k] /\ \A j \in 1..(k - 1) : x[j] = y[j]
       IN IF x[i] < y[i] THEN "Less" ELSE "Greater"

(* i64::cmp: signed comparison. *)
i64_cmp(n1, n2) ==
  LET key(n) == [n EXCEPT ![1] = (n[1] + 128) % 256]
  IN cmp_bytes(key(n1), key(n2))

(* A comparison of the raw bits as an unsigned integer. *)
total_cmp_unsigned(n1, n2) == cmp_bytes(n1, n2)

(* f64::total_cmp: the bits as a signed integer, the lower 63 bits flipped
   when the sign bit is set. *)
total_cmp(n1, n2) ==
  LET key(n) == IF n[1] >= 128 THEN [i \in 1..8 |-> 255 - n[i]]
                ELSE [n EXCEPT ![1] = n[1] + 128]
  IN cmp_bytes(key(n1), key(n2))

bool_cmp(b1, b2) ==
  IF b1 = b2 THEN "Equal" ELSE IF b2 THEN "Less" ELSE "Greater"

(* A float comparison without the NaN arms. *)
float_cmp_total(n1, n2) == total_cmp(n1, n2)

float_cmp(n1, n2) ==
  IF is_nan(n1) /\ is_nan(n2) THEN "Equal"
  ELSE IF is_nan(n1) THEN "Less"
  ELSE IF is_nan(n2) THEN "Greater"
  ELSE total_cmp(n1, n2)

(* An equality on the bits alone. *)
eq_bits(v, w) == v = w

RECURSIVE eq(_, _)
eq(v, w) ==
  IF tag(v) # tag(w) THEN FALSE
  ELSE IF tag(v) = TNil THEN TRUE
  ELSE IF tag(v) = TBool THEN payload(v) = payload(w)
  ELSE IF tag(v) = TInt THEN payload(v) = payload(w)
  ELSE IF tag(v) = TFloat
    THEN (is_nan(payload(v)) /\ is_nan(payload(w))) \/ payload(v) = payload(w)
  ELSE IF tag(v) = TArray
    THEN /\ Len(payload(v)) = Len(payload(w))
         /\ \A i \in 1..Len(payload(v)) : eq(payload(v)[i], payload(w)[i])
  ELSE /\ Len(payload(v)) = Len(payload(w))
       /\ \A i \in 1..Len(payload(v)) :
            /\ eq(payload(v)[i][1], payload(w)[i][1])
            /\ eq(payload(v)[i][2], payload(w)[i][2])

ne(v, w) == ~eq(v, w)

RECURSIVE cmp(_, _)
RECURSIVE cmp_array(_, _, _)
RECURSIVE cmp_map(_, _, _)

cmp(v, w) ==
  IF tag(v) < tag(w) THEN "Less"
  ELSE IF tag(v) > tag(w) THEN "Greater"
  ELSE IF tag(v) = TNil THEN "Equal"
  ELSE IF tag(v) = TBool THEN bool_cmp(payload(v), payload(w))
  ELSE IF tag(v) = TFloat THEN float_cmp(payload(v), payload(w))
  ELSE IF tag(v) = TInt THEN i64_cmp(payload(v), payload(w))
  ELSE IF tag(v) = TArray THEN cmp_array(payload(v), payload(w), 1)
  ELSE cmp_map(payload(v), payload(w), 1)

(* Vec::cmp: lexicographic, a proper prefix is smaller. *)
cmp_array(v1, v2, i) ==
  IF i > Len(v1) /\ i > Len(v2) THEN "Equal"
  ELSE IF i > Len(v1) THEN "Less"
  ELSE IF i > Len(v2) THEN "Greater"
  ELSE LET r == cmp(v1[i], v2[i])
       IN IF r = "Equal" THEN cmp_array(v1, v2, i + 1) ELSE r

(* A map comparison in which the smaller key gives the smaller map. *)
RECURSIVE cmp_map_ascending(_, _, _)
cmp_map_ascending(m1, m2, i) ==
  IF i > Len(m1) /\ i > Len(m2) THEN "Equal"
  ELSE IF i > Len(m1) THEN "Less"
  ELSE IF i > Len(m2) THEN "Greater"
  ELSE LET kc == cmp(m1[i][1], m2[i][1])
       IN IF kc # "Equal" THEN kc
          ELSE LET vc == cmp(m1[i][2], m2[i][2])
               IN IF vc = "Equal" THEN cmp_map_ascending(m1, m2, i + 1) ELSE vc

(* The loop over the two entry iterators of Value::cmp. *)
cmp_map(m1, m2, i) ==
  IF i > Len(m1) /\ i > Len(m2) THEN "Equal"
  ELSE IF i > Len(m1) THEN "Less"
  ELSE IF i > Len(m2) THEN "Greater"
  ELSE LET kc == cmp(m1[i][1], m2[i][1])
       IN IF kc = "Less" THEN "Greater"
          ELSE IF kc = "Greater" THEN "Less"
          ELSE LET vc == cmp(m1[i][2], m2[i][2])
               IN IF vc = "Equal" THEN cmp_map(m1, m2, i + 1) ELSE vc

lt(v, w) == cmp(v, w) = "Less"
le(v, w) == cmp(v, w) \in {"Less", "Equal"}
gt(v, w) == cmp(v, w) = "Greater"
ge(v, w) == cmp(v, w) \in {"Greater", "Equal"}

-----------------------------------------------------------------------------
(* The meaningful partial order.  An Option<Ordering> is one of "Less",
   "Equal", "Greater" and "None". *)

IsScalarPair(v, w) == tag(v) = tag(w) /\ tag(v) \in {TNil, TBool, TInt, TFloat}

RECURSIVE meaningful_partial_cmp(_, _)
RECURSIVE mpc_array(_, _, _, _)
RECURSIVE mpc_map(_, _, _, _, _)

(* A partial comparison that leaves a NaN and a non-NaN float, and the two
   zeros, without an order. *)
meaningful_partial_cmp_strict(v, w) ==
  IF IsScalarPair(v, w)
    THEN IF tag(v) = TFloat /\ (is_nan(payload(v)) # is_nan(payload(w))
                                 \/ {payload(v), payload(w)} = {NEG_ZERO, POS_ZERO})
           THEN "None"
         ELSE cmp(v, w)
  ELSE IF tag(v) = TArray /\ tag(w) = TArray THEN mpc_array(payload(v), payload(w), 1, "Equal")
  ELSE IF tag(v) = TMap /\ tag(w) = TMap THEN mpc_map(payload(v), payload(w), 1, 1, "Equal")
  ELSE "None"

(* A partial comparison whose scalar arm compares the other way round. *)
meaningful_partial_cmp_flipped(v, w) ==
  IF IsScalarPair(v, w) THEN cmp(w, v)
  ELSE IF tag(v) = TArray /\ tag(w) = TArray THEN mpc_array(payload(v), payload(w), 1, "Equal")
  ELSE IF tag(v) = TMap /\ tag(w) = TMap THEN mpc_map(payload(v), payload(w), 1, 1, "Equal")
  ELSE "None"

meaningful_partial_cmp(v, w) ==
  IF IsScalarPair(v, w) THEN cmp(v, w)
  ELSE IF tag(v) = TArray /\ tag(w) = TArray THEN mpc_array(payload(v), payload(w), 1, "Equal")
  ELSE IF tag(v) = TMap /\ tag(w) = TMap THEN mpc_map(payload(v), payload(w), 1, 1, "Equal")
  ELSE "None"

(* The loop of the Array arm: i is the index, so_far the state. *)
mpc_array(v1, v2, i, so_far) ==
  IF i <= Len(v1) /\ i <= Len(v2)
    THEN LET r == meaningful_partial_cmp(v1[i], v2[i])
         IN IF r = "None" THEN "None"
            ELSE IF so_far = "Equal" THEN mpc_array(v1, v2, i + 1, r)
            ELSE IF so_far = "Less"
              THEN IF r = "Greater" THEN "None" ELSE mpc_array(v1, v2, i + 1, so_far)
            ELSE IF r = "Less" THEN "None" ELSE mpc_array(v1, v2, i + 1, so_far)
  ELSE IF i <= Len(v1)
    THEN IF so_far \in {"Equal", "Greater"} THEN "Greater" ELSE "None"
  ELSE IF i <= Len(v2)
    THEN IF so_far \in {"Equal", "Less"} THEN "Less" ELSE "None"
  ELSE so_far

(* The loop of the Map arm: i1 and i2 are the positions of the two entry
   iterators, so_far the state. *)
mpc_map(m1, m2, i1, i2, so_far) ==
  IF i1 <= Len(m1) /\ i2 <= Len(m2)
    THEN LET kc == cmp(m1[i1][1], m2[i2][1])
             vc == meaningful_partial_cmp(m1[i1][2], m2[i2][2])
         IN IF so_far = "Equal"
              THEN IF kc = "Less" THEN mpc_map(m1, m2, i1 + 1, i2, "Greater")
                   ELSE IF kc = "Greater" THEN mpc_map(m1, m2, i1, i2 + 1, "Less")
                   ELSE IF vc = "None" THEN "None"
                   ELSE mpc_map(m1, m2, i1 + 1, i2 + 1, vc)
            ELSE IF so_far = "Less"
              THEN IF kc = "Less" THEN "None"
                   ELSE IF kc = "Greater" THEN mpc_map(m1, m2, i1, i2 + 1, so_far)
                   ELSE IF vc \in {"None", "Greater"} THEN "None"
                   ELSE mpc_map(m1, m2, i1 + 1, i2 + 1, so_far)
            ELSE IF kc = "Less" THEN mpc_map(m1, m2, i1 + 1, i2, so_far)
                 ELSE IF kc = "Greater" THEN "None"
                 ELSE IF vc \in {"None", "Less"} THEN "None"
                 ELSE mpc_map(m1, m2, i1 + 1, i2 + 1, so_far)
  ELSE IF i1 <= Len(m1)
    THEN IF so_far \in {"Equal", "Greater"} THEN "Greater" ELSE "None"
  ELSE IF i2 <= Len(m2)
    THEN IF so_far \in {"Equal", "Less"} THEN "Less" ELSE "None"
  ELSE so_far

IsCollectionPair(v, w) == tag(v) = tag(w) /\ tag(v) \in {TArray, TMap}

meaningful_lt(v, w) ==
  IF IsScalarPair(v, w) THEN lt(v, w)
  ELSE IF IsCollectionPair(v, w) THEN meaningful_partial_cmp(v, w) = "Less"
  ELSE FALSE

(* A meaningful_le that falls back on the total order. *)
meaningful_le_total(v, w) == le(v, w)

meaningful_le(v, w) ==
  IF IsScalarPair(v, w) THEN le(v, w)
  ELSE IF IsCollectionPair(v, w) THEN meaningful_partial_cmp(v, w) \in {"Less", "Equal"}
  ELSE FALSE

meaningful_gt(v, w) ==
  IF IsScalarPair(v, w) THEN gt(v, w)
  ELSE IF IsCollectionPair(v, w) THEN meaningful_partial_cmp(v, w) = "Greater"
  ELSE FALSE

meaningful_ge(v, w) ==
  IF IsScalarPair(v, w) THEN ge(v, w)
  ELSE IF IsCollectionPair(v, w) THEN meaningful_partial_cmp(v, w) \in {"Greater", "Equal"}
  ELSE FALSE

-----------------------------------------------------------------------------
(* BTreeMap<Value, Value>: entries in ascending key order under cmp. *)

(* An insert that leaves an entry whose key compares Equal as it is. *)
insert_first(m, k, v) ==
  IF \E i \in 1..Len(m) : cmp(m[i][1], k) = "Equal" THEN m
  ELSE LET n == Cardinality({j \in 1..Len(m) : cmp(m[j][1], k) = "Less"})
       IN SubSeq(m, 1, n) \o <<<<k, v>>>> \o SubSeq(m, n + 1, Len(m))

(* BTreeMap::insert: an entry whose key compares Equal keeps its key and
   gets the new value. *)
insert(m, k, v) ==
  IF \E i \in 1..Len(m) : cmp(m[i][1], k) = "Equal"
    THEN LET i == CHOOSE j \in 1..Len(m) : cmp(m[j][1], k) = "Equal"
         IN [m EXCEPT ![i] = <<m[i][1], v>>]
  ELSE LET n == Cardinality({j \in 1..Len(m) : cmp(m[j][1], k) = "Less"})
       IN SubSeq(m, 1, n) \o <<<<k, v>>>> \o SubSeq(m, n + 1, Len(m))

(* The map built by inserting the entries in turn. *)
RECURSIVE collect(_, _)
collect(m, entries) ==
  IF entries = <<>> THEN m
  ELSE collect(insert(m, entries[1][1], entries[1][2]), Tail(entries))

-----------------------------------------------------------------------------
(* greatest_lower_bound and least_upper_bound: Option<Value> is None or
   Some(v). *)

None == <<"None">>
Some(v) == <<"Some", v>>
is_some(o) == o[1] = "Some"
unwrap(o) == o[2]

(* BTreeMap::get: the value of the entry whose key compares Equal. *)
get(m, k) ==
  IF \E i \in 1..Len(m) : cmp(m[i][1], k) = "Equal"
    THEN Some(m[CHOOSE j \in 1..Len(m) : cmp(m[j][1], k) = "Equal"][2])
  ELSE None

RECURSIVE greatest_lower_bound(_, _)
RECURSIVE least_upper_bound(_, _)

(* The loop of the Array arm of greatest_lower_bound over 0..min(len). *)
RECURSIVE glb_array(_, _, _, _)
glb_array(v1, v2, i, r) ==
  IF i > Min(Len(v1), Len(v2)) THEN Some(Array(r))
  ELSE LET o == meaningful_partial_cmp(v1[i], v2[i])
       IN IF o = "None" THEN None
          ELSE IF o \in {"Less", "Equal"} THEN glb_array(v1, v2, i + 1, Append(r, v1[i]))
          ELSE glb_array(v1, v2, i + 1, Append(r, v2[i]))

(* The loop of the Map arm of greatest_lower_bound over the entries of m1. *)
RECURSIVE glb_map(_, _, _, _)
glb_map(m1, m2, i, r) ==
  IF i > Len(m1) THEN Some(Map(r))
  ELSE LET v2 == get(m2, m1[i][1])
           g == greatest_lower_bound(m1[i][2], unwrap(v2))
       IN IF ~is_some(v2) THEN glb_map(m1, m2, i + 1, r)
          ELSE IF ~is_some(g) THEN None
          ELSE glb_map(m1, m2, i + 1, insert(r, m1[i][1], unwrap(g)))

(* A lower bound that is always the first argument. *)
greatest_lower_bound_first(v, w) ==
  IF tag(v) = tag(w) THEN Some(v) ELSE None

greatest_lower_bound(v, w) ==
  IF tag(v) # tag(w) THEN None
  ELSE IF tag(v) = TNil THEN Some(Nil)
  ELSE IF tag(v) = TBool THEN Some(Bool(payload(v) /\ payload(w)))
  ELSE IF tag(v) = TInt
    THEN Some(IF i64_cmp(payload(v), payload(w)) = "Greater" THEN w ELSE v)
  ELSE IF tag(v) = TFloat
    THEN IF is_nan(payload(v)) THEN Some(v)
         ELSE IF is_nan(payload(w)) THEN Some(w)
         ELSE IF total_cmp(payload(v), payload(w)) = "Greater" THEN Some(w)
         ELSE Some(v)
  ELSE IF tag(v) = TArray THEN glb_array(payload(v), payload(w), 1, <<>>)
  ELSE glb_map(payload(v), payload(w), 1, <<>>)

(* The loop of the Array arm of least_upper_bound over 0..max(len). *)
RECURSIVE lub_array(_, _, _, _)
lub_array(v1, v2, i, r) ==
  IF i > Len(v1) /\ i > Len(v2) THEN Some(Array(r))
  ELSE IF i > Len(v2) THEN lub_array(v1, v2, i + 1, Append(r, v1[i]))
  ELSE IF i > Len(v1) THEN lub_array(v1, v2, i + 1, Append(r, v2[i]))
  ELSE LET o == meaningful_partial_cmp(v1[i], v2[i])
       IN IF o = "None" THEN None
          ELSE IF o \in {"Equal", "Greater"} THEN lub_array(v1, v2, i + 1, Append(r, v1[i]))
          ELSE lub_array(v1, v2, i + 1, Append(r, v2[i]))

(* One loop of the Map arm of least_upper_bound: the entries of m1 joined
   with those of m2, r the map built so far. *)
RECURSIVE lub_map(_, _, _, _)
lub_map(m1, m2, i, r) ==
  IF ~is_some(r) \/ i > Len(m1) THEN r
  ELSE LET v2 == get(m2, m1[i][1])
           l == least_upper_bound(m1[i][2], unwrap(v2))
       IN IF ~is_some(v2)
            THEN lub_map(m1, m2, i + 1, Some(insert(unwrap(r), m1[i][1], m1[i][2])))
          ELSE IF ~is_some(l) THEN None
          ELSE lub_map(m1, m2, i + 1, Some(insert(unwrap(r), m1[i][1], unwrap(l))))

least_upper_bound(v, w) ==
  IF tag(v) # tag(w) THEN None
  ELSE IF tag(v) = TNil THEN Some(Nil)
  ELSE IF tag(v) = TBool THEN Some(Bool(payload(v) \/ payload(w)))
  ELSE IF tag(v) = TInt
    THEN Some(IF i64_cmp(payload(w), payload(v)) = "Greater" THEN w ELSE v)
  ELSE IF tag(v) = TFloat
    THEN IF is_nan(payload(v)) /\ is_nan(payload(w)) THEN Some(v)
         ELSE IF is_nan(payload(v)) THEN Some(w)
         ELSE IF is_nan(payload(w)) THEN Some(v)
         ELSE IF total_cmp(payload(v), payload(w)) = "Less" THEN Some(w)
         ELSE Some(v)
  ELSE IF tag(v) = TArray THEN lub_array(payload(v), payload(w), 1, <<>>)
  ELSE LET r == lub_map(payload(w), payload(v), 1,
                        lub_map(payload(v), payload(w), 1, Some(<<>>)))
       IN IF is_some(r) THEN Some(Map(unwrap(r))) ELSE None

-----------------------------------------------------------------------------
(* The values the order operations are explored on. *)

SeqsUpTo(S, n) == UNION {[1..k -> S] : k \in 0..n}

I64_MIN == <<128, 0, 0, 0, 0, 0, 0, 0>>
I64_MAX == <<127, 255, 255, 255, 255, 255, 255, 255>>

Floats ==
  {NAN, NAN_ONES, NEG_INFINITY, NEG_TWO_HALF, NEG_ONE_HALF, NEG_ZERO, POS_ZERO,
   ONE_HALF, TWO_HALF, INFINITY}

Scalars ==
  {Nil, Bool(FALSE), Bool(TRUE)}
    \cup {Float(f) : f \in Floats}
    \cup {Int64(n) : n \in {I64_MIN, i64(-1), i64(0), i64(1), I64_MAX}}

Elems == {Int64(i64(0)), Int64(i64(1))}
Keys == {Int64(i64(0)), Int64(i64(1))}
Vals == {Int64(i64(0)), Int64(i64(1))}

FlatArrays == {Array(s) : s \in SeqsUpTo(Elems, MaxLen)}
FlatMaps == {Map(collect(<<>>, s)) : s \in SeqsUpTo(Keys \X Vals, MaxEntries)}

Nested ==
  { Array(<<Nil>>),
    Array(<<Int64(i64(0)), Nil>>),
    Array(<<Array(<<>>)>>),
    Array(<<Map(<<>>)>>),
    Array(<<Array(<<Int64(i64(0))>>), Array(<<Int64(i64(0)), Int64(i64(1))>>)>>),
    Array(<<Array(<<Int64(i64(0)), Int64(i64(1))>>)>>),
    Array(<<Array(<<Int64(i64(1)), Int64(i64(0))>>)>>),
    Map(<<<<Float(NAN), Nil>>>>),
    Map(<<<<Float(NAN_ONES), Nil>>>>),
    Map(<<<<Int64(i64(0)), Array(<<Int64(i64(1))>>)>>>>),
    Map(<<<<Int64(i64(0)), Int64(i64(0))>>, <<Int64(i64(2)), Int64(i64(0))>>>>),
    Map(<<<<Array(<<>>), Map(<<>>)>>, <<Map(<<>>), Nil>>>>) }

Values == Scalars \cup FlatArrays \cup FlatMaps \cup Nested

-----------------------------------------------------------------------------
(* The order operations of value.rs applied to drawn values. *)

NoCodec ==
  /\ tv = <<>>
  /\ indentation = 0
  /\ out = <<>>
  /\ input = <<>>
  /\ decoded = <<>>
  /\ p = <<>>
  /\ serializer = <<>>
  /\ collections = <<>>

InitOrder ==
  /\ a \in Values
  /\ b \in Values
  /\ c \in Values
  /\ op = "new"
  /\ res = "none"
  /\ NoCodec

Apply(name, r) ==
  /\ op' = name
  /\ res' = r
  /\ UNCHANGED <<a, b, c, tv, indentation, out, input, decoded, p, serializer, collections>>

Eq == Apply("eq", eq(a, b))
Ne == Apply("ne", ne(a, b))
Cmp == Apply("cmp", cmp(a, b))
MeaningfulPartialCmp == Apply("meaningful_partial_cmp", meaningful_partial_cmp(a, b))
MeaningfulLt == Apply("meaningful_lt", meaningful_lt(a, b))
MeaningfulLe == Apply("meaningful_le", meaningful_le(a, b))
MeaningfulGt == Apply("meaningful_gt", meaningful_gt(a, b))
MeaningfulGe == Apply("meaningful_ge", meaningful_ge(a, b))
GreatestLowerBound == Apply("greatest_lower_bound", greatest_lower_bound(a, b))
LeastUpperBound == Apply("least_upper_bound", least_upper_bound(a, b))

NextOrder ==
  \/ Eq
  \/ Ne
  \/ Cmp
  \/ MeaningfulPartialCmp
  \/ MeaningfulLt
  \/ MeaningfulLe
  \/ MeaningfulGt
  \/ MeaningfulGe
  \/ GreatestLowerBound
  \/ LeastUpperBound

SpecOrder == InitOrder /\ [][NextOrder]_vars

-----------------------------------------------------------------------------
(* Claims about equality and the orders. *)

NaNs == {NAN, NAN_ONES}

(* C5: equality is reflexive, symmetric and transitive; v == w iff not
   v != w; any two NaN floats are equal, a NaN float equals no non-NaN
   float, and two non-NaN floats are equal iff their bits are equal. *)
C5_Theorem ==
  /\ op = "eq" =>
       /\ eq(a, a)
       /\ res => eq(b, a)
       /\ res /\ eq(b, c) => eq(a, c)
       /\ res <=> ~ne(a, b)
       /\ tag(a) = TFloat /\ tag(b) = TFloat =>
            /\ payload(a) \in NaNs /\ payload(b) \in NaNs => res
            /\ (payload(a) \in NaNs) # (payload(b) \in NaNs) => ~res
            /\ payload(a) \notin NaNs /\ payload(b) \notin NaNs =>
                 (res <=> payload(a) = payload(b))
       /\ a = Float(NEG_ZERO) /\ b = Float(POS_ZERO) => ~res
  /\ op = "ne" => (res <=> ~eq(a, b))

C5_Witness ==
  /\ op = "eq"
  /\ a = Float(NAN)
  /\ b = Float(NAN_ONES)
  /\ res

(* C6: cmp is a total order consistent with equality: a == b implies
   a <= b; a <= b and b <= a imply a == b; a <= b and b <= c imply a <= c;
   a <= b or b <= a; cmp returns Less, Equal, Greater exactly when a < b,
   a == b, a > b. *)
C6_Theorem ==
  op = "cmp" =>
    /\ eq(a, b) => le(a, b)
    /\ le(a, b) /\ le(b, a) => eq(a, b)
    /\ le(a, b) /\ le(b, c) => le(a, c)
    /\ le(a, b) \/ le(b, a)
    /\ res \in {"Less", "Equal", "Greater"}
    /\ res = "Less" <=> lt(a, b) /\ ~eq(a, b) /\ ~gt(a, b) /\ gt(b, a)
    /\ res = "Equal" <=> eq(a, b) /\ ~lt(a, b) /\ ~gt(a, b)
    /\ res = "Greater" <=> gt(a, b) /\ ~eq(a, b) /\ ~lt(a, b) /\ lt(b, a)

C6_Witness ==
  /\ op = "cmp"
  /\ res = "Less"
  /\ tag(a) = TMap
  /\ tag(b) = TMap
  /\ tag(c) = TMap
  /\ lt(b, c)
  /\ lt(a, c)

(* The first position at which the entry sequences of two maps differ, or
   one past the shorter map when one is a prefix of the other. *)
SameEntry(e1, e2) == eq(e1[1], e2[1]) /\ eq(e1[2], e2[2])

FirstDifference(m1, m2) ==
  LET common == Min(Len(m1), Len(m2))
      differing == {i \in 1..common : ~SameEntry(m1[i], m2[i])}
  IN IF differing = {} THEN common + 1
     ELSE CHOOSE i \in differing : \A j \in differing : i <= j

Reverse(o) == IF o = "Less" THEN "Greater" ELSE IF o = "Greater" THEN "Less" ELSE o

(* C7: for two maps cmp is decided by the first position at which the
   entries, in ascending key order, differ: when the keys there differ the
   map with the smaller key is the GREATER map, when the keys are equal the
   values decide; a map whose entries are a proper prefix of the other's is
   the smaller one. *)
C7_Theorem ==
  op = "cmp" /\ tag(a) = TMap /\ tag(b) = TMap =>
    LET m1 == payload(a)
        m2 == payload(b)
        i == FirstDifference(m1, m2)
    IN IF i > Len(m1) /\ i > Len(m2) THEN res = "Equal"
       ELSE IF i > Len(m1) THEN res = "Less"
       ELSE IF i > Len(m2) THEN res = "Greater"
       ELSE IF ~eq(m1[i][1], m2[i][1]) THEN res = Reverse(cmp(m1[i][1], m2[i][1]))
       ELSE res = cmp(m1[i][2], m2[i][2])

(* C7 as stated: at the first differing position the map with the smaller
   key is the smaller map. *)
C7_Original ==
  op = "cmp" /\ tag(a) = TMap /\ tag(b) = TMap =>
    LET m1 == payload(a)
        m2 == payload(b)
        i == FirstDifference(m1, m2)
    IN IF i > Len(m1) /\ i > Len(m2) THEN res = "Equal"
       ELSE IF i > Len(m1) THEN res = "Less"
       ELSE IF i > Len(m2) THEN res = "Greater"
       ELSE IF ~eq(m1[i][1], m2[i][1]) THEN res = cmp(m1[i][1], m2[i][1])
       ELSE res = cmp(m1[i][2], m2[i][2])

C7_Witness ==
  /\ op = "cmp"
  /\ tag(a) = TMap
  /\ tag(b) = TMap
  /\ Len(payload(a)) = 2
  /\ Len(payload(b)) = 2
  /\ FirstDifference(payload(a), payload(b)) = 2
  /\ lt(payload(a)[2][1], payload(b)[2][1])
  /\ res = "Greater"

(* The classes of floats of the claimed order, by bit pattern. *)
FloatClass(bits) ==
  IF bits \in NaNs THEN 0
  ELSE IF bits = NEG_INFINITY THEN 1
  ELSE IF bits \in {NEG_TWO_HALF, NEG_ONE_HALF} THEN 2
  ELSE IF bits = NEG_ZERO THEN 3
  ELSE IF bits = POS_ZERO THEN 4
  ELSE IF bits \in {ONE_HALF, TWO_HALF} THEN 5
  ELSE 6

(* C8: values of different variants compare by the rank nil < bool < float
   < int < array < map whatever their contents, false < true, and floats
   are ordered NaN < -Inf < negative finites < -0.0 < +0.0 < positive
   finites < +Inf. *)
C8_Theorem ==
  op = "cmp" =>
    /\ tag(a) < tag(b) => res = "Less"
    /\ tag(a) > tag(b) => res = "Greater"
    /\ a = Bool(FALSE) /\ b = Bool(TRUE) => res = "Less"
    /\ tag(a) = TFloat /\ tag(b) = TFloat =>
         /\ FloatClass(payload(a)) < FloatClass(payload(b)) => res = "Less"
         /\ FloatClass(payload(a)) > FloatClass(payload(b)) => res = "Greater"
    /\ a = Float(NEG_TWO_HALF) /\ b = Float(NEG_ONE_HALF) => res = "Less"
    /\ a = Float(ONE_HALF) /\ b = Float(TWO_HALF) => res = "Less"

C8_Witness ==
  /\ op = "cmp"
  /\ a = Float(NEG_ONE_HALF)
  /\ b = Float(NEG_ZERO)
  /\ c = Float(POS_ZERO)
  /\ res = "Less"
  /\ lt(b, c)

(* C9: meaningful_le is a partial order: a == b implies a <= b; a <= b and
   b <= a imply a == b; a <= b and b <= c imply a <= c; and whenever
   meaningful_partial_cmp(a, b) is None, none of meaningful_lt,
   meaningful_le, meaningful_gt, meaningful_ge holds and a != b. *)
C9_Theorem ==
  /\ op = "meaningful_le" =>
       /\ eq(a, b) => res
       /\ res /\ meaningful_le(b, a) => eq(a, b)
       /\ res /\ meaningful_le(b, c) => meaningful_le(a, c)
  /\ op = "meaningful_partial_cmp" /\ res = "None" =>
       /\ ~meaningful_lt(a, b)
       /\ ~meaningful_le(a, b)
       /\ ~meaningful_gt(a, b)
       /\ ~meaningful_ge(a, b)
       /\ ne(a, b)
  /\ op \in {"meaningful_lt", "meaningful_le", "meaningful_gt", "meaningful_ge"}
       /\ meaningful_partial_cmp(a, b) = "None" => ~res

C9_Witness ==
  /\ op = "meaningful_partial_cmp"
  /\ res = "None"
  /\ tag(a) = TMap
  /\ tag(b) = TMap
  /\ Len(payload(a)) = 2
  /\ Len(payload(b)) = 2

(* C10: the total order extends the meaningful partial order: when
   meaningful_partial_cmp(a, b) is Some(Less) then a < b under cmp, and
   when it is Some(Greater) then a > b. *)
C10_Theorem ==
  op = "meaningful_partial_cmp" =>
    /\ res = "Less" => cmp(a, b) = "Less"
    /\ res = "Greater" => cmp(a, b) = "Greater"

C10_Witness ==
  /\ op = "meaningful_partial_cmp"
  /\ res = "Less"
  /\ tag(a) = TMap
  /\ tag(b) = TMap
  /\ Len(payload(a)) = 1
  /\ Len(payload(b)) = 2
  /\ eq(payload(a)[1][1], payload(b)[2][1])

comparable(v, w) == meaningful_partial_cmp(v, w) # "None"

(* C11: whenever greatest_lower_bound(a, b) is Some(g): g <= a and g <= b in
   the meaningful order, greatest_lower_bound(b, a) is a value equal to g,
   and g equals a or b iff a and b are comparable; the dual holds for
   least_upper_bound; both bounds are Some whenever a and b are
   comparable. *)
C11_Theorem ==
  /\ op = "greatest_lower_bound" =>
       /\ comparable(a, b) => is_some(res)
       /\ is_some(res) =>
            /\ meaningful_le(unwrap(res), a)
            /\ meaningful_le(unwrap(res), b)
            /\ is_some(greatest_lower_bound(b, a))
            /\ eq(unwrap(greatest_lower_bound(b, a)), unwrap(res))
            /\ (eq(unwrap(res), a) \/ eq(unwrap(res), b)) <=> comparable(a, b)
  /\ op = "least_upper_bound" =>
       /\ comparable(a, b) => is_some(res)
       /\ is_some(res) =>
            /\ meaningful_le(a, unwrap(res))
            /\ meaningful_le(b, unwrap(res))
            /\ is_some(least_upper_bound(b, a))
            /\ eq(unwrap(least_upper_bound(b, a)), unwrap(res))
            /\ (eq(unwrap(res), a) \/ eq(unwrap(res), b)) <=> comparable(a, b)

(* The lower bound of two incomparable maps is a third map. *)
C11_Witness ==
  /\ op = "greatest_lower_bound"
  /\ tag(a) = TMap
  /\ ~comparable(a, b)
  /\ is_some(res)
  /\ ~eq(unwrap(res), a)
  /\ ~eq(unwrap(res), b)
  /\ Len(payload(unwrap(res))) >= 1

(* The elements of the two arrays have a greatest lower bound, or a least
   upper bound, at every common index. *)
elements_bounded(v1, v2, lower) ==
  \A i \in 1..Min(Len(v1), Len(v2)) :
    is_some(IF lower THEN greatest_lower_bound(v1[i], v2[i])
            ELSE least_upper_bound(v1[i], v2[i]))

(* The array of the bounds of the elements: up to the shorter length for the
   lower bound, and continued by the longer array for the upper bound. *)
elementwise(v1, v2, lower) ==
  Array([i \in 1..(IF lower THEN Min(Len(v1), Len(v2)) ELSE Max(Len(v1), Len(v2))) |->
           IF i > Len(v2) THEN v1[i]
           ELSE IF i > Len(v1) THEN v2[i]
           ELSE IF lower THEN unwrap(greatest_lower_bound(v1[i], v2[i]))
           ELSE unwrap(least_upper_bound(v1[i], v2[i]))])

(* C25: for arrays A and B, greatest_lower_bound(A, B) is the array of
   length min(|A|, |B|) of the greatest lower bounds of the elements, and
   least_upper_bound(A, B) the array of length max(|A|, |B|) of the least
   upper bounds of the elements at the common indices and of the elements of
   the longer array after them; each is defined whenever all these bounds
   of elements are defined. *)
C25_Claim ==
  /\ (op = "greatest_lower_bound" /\ tag(a) = TArray /\ tag(b) = TArray
        /\ elements_bounded(payload(a), payload(b), TRUE)) =>
       /\ is_some(res)
       /\ eq(unwrap(res), elementwise(payload(a), payload(b), TRUE))
  /\ (op = "least_upper_bound" /\ tag(a) = TArray /\ tag(b) = TArray
        /\ elements_bounded(payload(a), payload(b), FALSE)) =>
       /\ is_some(res)
       /\ eq(unwrap(res), elementwise(payload(a), payload(b), FALSE))

(* The explored floats other than NaN and the explored ints, smallest
   first. *)
NaturalFloats ==
  <<NEG_INFINITY, NEG_TWO_HALF, NEG_ONE_HALF, NEG_ZERO, POS_ZERO, ONE_HALF,
    TWO_HALF, INFINITY>>

NaturalInts == <<I64_MIN, i64(-1), i64(0), i64(1), I64_MAX>>

rank(order, x) == CHOOSE i \in 1..Len(order) : order[i] = x

natural(order, x, y) ==
  IF rank(order, x) < rank(order, y) THEN "Less"
  ELSE IF rank(order, x) > rank(order, y) THEN "Greater"
  ELSE "Equal"

ZeroPair(x, y) == {x, y} = {NEG_ZERO, POS_ZERO}

(* C12 as stated: in the meaningful partial order a NaN float and a non-NaN
   float are incomparable and so are -0.0 and +0.0; every other pair of
   floats, and every pair of bools or of ints, is compared by its natural
   order. *)
C12_Original ==
  (op = "meaningful_partial_cmp" /\ a \in Scalars /\ b \in Scalars /\ tag(a) = tag(b)) =>
    /\ tag(a) = TBool => res = bool_cmp(payload(a), payload(b))
    /\ tag(a) = TInt => res = natural(NaturalInts, payload(a), payload(b))
    /\ tag(a) = TFloat =>
         IF is_nan(payload(a)) # is_nan(payload(b)) THEN res = "None"
         ELSE IF ZeroPair(payload(a), payload(b)) THEN res = "None"
         ELSE IF is_nan(payload(a)) THEN res = "Equal"
         ELSE res = natural(NaturalFloats, payload(a), payload(b))

(* C12, amended: in the meaningful partial order any two floats are
   comparable: two NaNs are Equal, a NaN is Less than every non-NaN float,
   -0.0 is Less than +0.0, and every other pair of floats, and every pair of
   bools or of ints, is compared by its natural order. *)
C12_Theorem ==
  (op = "meaningful_partial_cmp" /\ a \in Scalars /\ b \in Scalars /\ tag(a) = tag(b)) =>
    /\ res # "None"
    /\ tag(a) = TBool => res = bool_cmp(payload(a), payload(b))
    /\ tag(a) = TInt => res = natural(NaturalInts, payload(a), payload(b))
    /\ tag(a) = TFloat =>
         IF is_nan(payload(a)) /\ is_nan(payload(b)) THEN res = "Equal"
         ELSE IF is_nan(payload(a)) THEN res = "Less"
         ELSE IF is_nan(payload(b)) THEN res = "Greater"
         ELSE res = natural(NaturalFloats, payload(a), payload(b))

(* A NaN has been compared with a non-NaN float. *)
C12_Witness ==
  /\ op = "meaningful_partial_cmp"
  /\ a = Float(NAN_ONES)
  /\ b = Float(NEG_INFINITY)
  /\ res = "Less"

-----------------------------------------------------------------------------
(* The compact serializer (compact/ser.rs). *)

(* The n least significant bytes of a count, most significant first. *)
RECURSIVE to_be_bytes(_, _)
to_be_bytes(n, width) ==
  IF width = 0 THEN <<>> ELSE to_be_bytes(n \div 256, width - 1) \o <<n % 256>>

(* The concatenation of a sequence of byte strings, by halves. *)
RECURSIVE concat(_)
concat(parts) ==
  IF Len(parts) = 0 THEN <<>>
  ELSE IF Len(parts) = 1 THEN parts[1]
  ELSE LET h == Len(parts) \div 2
       IN concat(SubSeq(parts, 1, h)) \o concat(SubSeq(parts, h + 1, Len(parts)))

(* serialize_count: t is the tag byte.  Lengths are below 2^31 here, so the
   arms for counts above u32::MAX are never taken. *)
serialize_count(n, t) ==
  IF n <= 27 THEN <<t + n>>
  ELSE IF n <= 255 THEN <<t + 28>> \o to_be_bytes(n, 1)
  ELSE IF n <= 65535 THEN <<t + 29>> \o to_be_bytes(n, 2)
  ELSE <<t + 29>> \o to_be_bytes(n, 4)

(* Whether the i64 n lies in the range of a signed integer of width bytes. *)
fits(n, width) ==
  LET ext == IF n[9 - width] >= 128 THEN 255 ELSE 0
  IN \A i \in 1..(8 - width) : n[i] = ext

serialize_bool(v) == IF v THEN <<33>> ELSE <<32>>

(* A serialize_i64 without the inline form. *)
serialize_i64_bytes(v) ==
  IF fits(v, 1) THEN <<124>> \o SubSeq(v, 8, 8)
  ELSE IF fits(v, 2) THEN <<125>> \o SubSeq(v, 7, 8)
  ELSE IF fits(v, 4) THEN <<126>> \o SubSeq(v, 5, 8)
  ELSE <<127>> \o v

serialize_i64(v) ==
  IF (\A i \in 1..7 : v[i] = 0) /\ v[8] <= 27 THEN <<96 + v[8]>>
  ELSE IF fits(v, 1) THEN <<124>> \o SubSeq(v, 8, 8)
  ELSE IF fits(v, 2) THEN <<125>> \o SubSeq(v, 7, 8)
  ELSE IF fits(v, 4) THEN <<126>> \o SubSeq(v, 5, 8)
  ELSE <<127>> \o v

serialize_f64(v) == <<64>> \o v

serialize_unit == <<0>>

serialize_seq(len) == serialize_count(len, 160)

serialize_map(len) == serialize_count(len, 224)

(* Serialize for Value, driving the compact serializer. *)
RECURSIVE serialize(_)
serialize(v) ==
  IF tag(v) = TNil THEN serialize_unit
  ELSE IF tag(v) = TBool THEN serialize_bool(payload(v))
  ELSE IF tag(v) = TInt THEN serialize_i64(payload(v))
  ELSE IF tag(v) = TFloat THEN serialize_f64(payload(v))
  ELSE IF tag(v) = TArray
    THEN serialize_seq(Len(payload(v)))
           \o concat([i \in 1..Len(payload(v)) |-> serialize(payload(v)[i])])
  ELSE serialize_map(Len(payload(v)))
         \o concat([i \in 1..Len(payload(v)) |->
                      serialize(payload(v)[i][1]) \o serialize(payload(v)[i][2])])

to_vec(value) == serialize(value)

-----------------------------------------------------------------------------
(* ParserHelper: the input is a sequence of bytes, the position counts the
   bytes consumed.  The result of a parsing step is a record: ok, the value
   parsed, the position afterwards, and on failure the error and the
   position it is reported at. *)

Ok(v, position) ==
  [ok |-> TRUE, val |-> v, pos |-> position, err |-> "", at |-> 0]

Fail(e, where, position) ==
  [ok |-> FALSE, val |-> <<>>, pos |-> position, err |-> e, at |-> where]

slice(inp, start, end) == SubSeq(inp, start + 1, end)

(* Error::unexpected_end_of_input(self.position()): the reason
   UnexpectedEndOfInput is written "Eoi". *)
unexpected_end_of_input(position) == Fail("Eoi", position, position)

(* A next that moves the position before it looks for the byte. *)
next_moving(inp, position) ==
  IF position < Len(inp) THEN Ok(inp[position + 1], position + 1)
  ELSE Fail("Eoi", position + 1, position + 1)

next(inp, position) ==
  IF position < Len(inp) THEN Ok(inp[position + 1], position + 1)
  ELSE unexpected_end_of_input(position)

peek(inp, position) ==
  IF position < Len(inp) THEN Ok(inp[position + 1], position)
  ELSE unexpected_end_of_input(position)

expect(inp, position, expected, e) ==
  LET n == next(inp, position)
  IN IF ~n.ok THEN n
     ELSE IF n.val = expected THEN Ok(<<>>, n.pos)
     ELSE Fail(e, position, n.pos)

(* advance_or moves the position before it checks it. *)
advance_or(inp, position, offset, e) ==
  IF Len(inp) < position + offset THEN Fail(e, position, position + offset)
  ELSE Ok(<<>>, position + offset)

-----------------------------------------------------------------------------
(* The compact deserializer (compact/de.rs). *)

(* u64::from_be_bytes as usize.  A count of 2^31 or more is read as
   2^31 - 1: every input is far shorter, so the loop over the elements ends
   in the same error. *)
from_be_bytes(bytes) ==
  LET n == Len(bytes)
      high == {i \in 1..n : i <= n - 4 /\ bytes[i] # 0}
      byte(k) == IF k <= n THEN bytes[n + 1 - k] ELSE 0
  IN IF high # {} \/ byte(4) >= 128 THEN 2147483647
     ELSE byte(4) * 16777216 + byte(3) * 65536 + byte(2) * 256 + byte(1)

(* iN::from_be_bytes(..) as i64: sign extension to eight bytes. *)
sign_extend(bytes) ==
  LET ext == IF bytes[1] >= 128 THEN 255 ELSE 0
  IN [i \in 1..(8 - Len(bytes)) |-> ext] \o bytes

parse_nil(inp, position) ==
  LET r == expect(inp, position, 0, "ExpectedNil")
  IN IF r.ok THEN Ok(Nil, r.pos) ELSE r

(* A parse_bool that reports a wrong byte at the position after it. *)
parse_bool_after(inp, position) ==
  LET n == next(inp, position)
  IN IF ~n.ok THEN n
     ELSE IF n.val = 32 THEN Ok(Bool(FALSE), n.pos)
     ELSE IF n.val = 33 THEN Ok(Bool(TRUE), n.pos)
     ELSE Fail("ExpectedBool", n.pos, n.pos)

parse_bool(inp, position) ==
  LET n == next(inp, position)
  IN IF ~n.ok THEN n
     ELSE IF n.val = 32 THEN Ok(Bool(FALSE), n.pos)
     ELSE IF n.val = 33 THEN Ok(Bool(TRUE), n.pos)
     ELSE Fail("ExpectedBool", n.pos - 1, n.pos)

parse_float(inp, position) ==
  LET e == expect(inp, position, 64, "ExpectedFloat")
      r == advance_or(inp, e.pos, 8, "Eoi")
  IN IF ~e.ok THEN e
     ELSE IF ~r.ok THEN r
     ELSE Ok(Float(slice(inp, e.pos, e.pos + 8)), r.pos)

(* A reader that knows the one and two byte forms only. *)
width_short(arg) == IF arg = 28 THEN 1 ELSE 2

(* The bytes that follow a head byte with argument 28..31. *)
Width(arg) == IF arg = 31 THEN 8 ELSE IF arg = 30 THEN 4 ELSE IF arg = 29 THEN 2 ELSE 1

parse_int(inp, position) ==
  LET n == next(inp, position)
      arg == n.val % 32
      r == advance_or(inp, n.pos, Width(arg), "Eoi")
  IN IF ~n.ok THEN n
     ELSE IF n.val \div 32 # 3 THEN Fail("ExpectedInt", n.pos - 1, n.pos)
     ELSE IF arg >= 28
       THEN IF ~r.ok THEN r
            ELSE Ok(Int64(sign_extend(slice(inp, n.pos, n.pos + Width(arg)))), r.pos)
     ELSE Ok(Int64(sign_extend(<<arg>>)), n.pos)

(* A count that is not compared with i64::MAX. *)
parse_count_unchecked(inp, position, t, expected, out_of_bounds) ==
  LET n == next(inp, position)
      arg == n.val % 32
      r == advance_or(inp, n.pos, Width(arg), "Eoi")
      bytes == slice(inp, n.pos, n.pos + Width(arg))
  IN IF ~n.ok THEN n
     ELSE IF n.val - arg # t THEN Fail(expected, n.pos - 1, n.pos)
     ELSE IF arg >= 28
       THEN IF ~r.ok THEN r ELSE Ok(from_be_bytes(bytes), r.pos)
     ELSE Ok(arg, n.pos)

parse_count(inp, position, t, expected, out_of_bounds) ==
  LET n == next(inp, position)
      arg == n.val % 32
      r == advance_or(inp, n.pos, Width(arg), "Eoi")
      bytes == slice(inp, n.pos, n.pos + Width(arg))
  IN IF ~n.ok THEN n
     ELSE IF n.val - arg # t THEN Fail(expected, n.pos - 1, n.pos)
     ELSE IF arg >= 28
       THEN IF ~r.ok THEN r
            ELSE IF arg = 31 /\ bytes[1] >= 128 THEN Fail(out_of_bounds, r.pos, r.pos)
            ELSE Ok(from_be_bytes(bytes), r.pos)
     ELSE Ok(arg, n.pos)

parse_bytes(inp, position) ==
  LET count == parse_count(inp, position, 128, "ExpectedBytes", "OutOfBoundsString")
  IN IF ~count.ok THEN count
     ELSE IF Len(inp) - count.pos < count.val THEN Fail("Eoi", count.pos, count.pos)
     ELSE Ok(slice(inp, count.pos, count.pos + count.val), count.pos + count.val)

(* ValueVisitor::visit_bytes. *)
visit_bytes(bytes) == Array([i \in 1..Len(bytes) |-> Int64(sign_extend(<<0, bytes[i]>>))])

(* AlwaysNil: the value handed to the visitor for every key of a set. *)
AlwaysNil(position) == Ok(Nil, position)

RECURSIVE deserialize_any(_, _)
RECURSIVE next_elements(_, _, _)
RECURSIVE next_entries(_, _, _, _)

(* visit_seq over a SequenceAccessor: the len elements read in turn, the
   first error ending the loop.  The elements are read by halves. *)
next_elements(inp, position, len) ==
  IF len = 0 THEN Ok(<<>>, position)
  ELSE IF len = 1
    THEN LET r == deserialize_any(inp, position)
         IN IF r.ok THEN Ok(<<r.val>>, r.pos) ELSE r
  ELSE LET h == len \div 2
           r1 == next_elements(inp, position, h)
           r2 == next_elements(inp, r1.pos, len - h)
       IN IF ~r1.ok THEN r1
          ELSE IF ~r2.ok THEN r2
          ELSE Ok(r1.val \o r2.val, r2.pos)

(* visit_map over a MapAccessor: the len entries read in turn; for a set
   the value of every key is nil. *)
next_entries(inp, position, len, set) ==
  IF len = 0 THEN Ok(<<>>, position)
  ELSE IF len = 1
    THEN LET k == deserialize_any(inp, position)
             v == IF set THEN AlwaysNil(k.pos) ELSE deserialize_any(inp, k.pos)
         IN IF ~k.ok THEN k
            ELSE IF ~v.ok THEN v
            ELSE Ok(<<<<k.val, v.val>>>>, v.pos)
  ELSE LET h == len \div 2
           r1 == next_entries(inp, position, h, set)
           r2 == next_entries(inp, r1.pos, len - h, set)
       IN IF ~r1.ok THEN r1
          ELSE IF ~r2.ok THEN r2
          ELSE Ok(r1.val \o r2.val, r2.pos)

deserialize_bytes(inp, position) ==
  LET bytes == parse_bytes(inp, position)
  IN IF bytes.ok THEN Ok(visit_bytes(bytes.val), bytes.pos) ELSE bytes

deserialize_seq(inp, position) ==
  LET count == parse_count(inp, position, 160, "ExpectedArray", "OutOfBoundsArray")
      elements == next_elements(inp, count.pos, count.val)
  IN IF ~count.ok THEN count
     ELSE IF ~elements.ok THEN elements
     ELSE Ok(Array(elements.val), elements.pos)

deserialize_map(inp, position) ==
  LET set == peek(inp, position).val \div 32 = 6
      count == IF set
                 THEN parse_count(inp, position, 192, "ExpectedMap", "OutOfBoundsSet")
                 ELSE parse_count(inp, position, 224, "ExpectedMap", "OutOfBoundsMap")
      entries == next_entries(inp, count.pos, count.val, set)
  IN IF ~count.ok THEN count
     ELSE IF ~entries.ok THEN entries
     ELSE Ok(Map(collect(<<>>, entries.val)), entries.pos)

(* Deserialize for Value: deserialize_any with the ValueVisitor. *)
deserialize_any(inp, position) ==
  LET head == peek(inp, position)
      major == head.val \div 32
  IN IF ~head.ok THEN head
     ELSE IF major = 0 THEN parse_nil(inp, position)
     ELSE IF major = 1 THEN parse_bool(inp, position)
     ELSE IF major = 2 THEN parse_float(inp, position)
     ELSE IF major = 3 THEN parse_int(inp, position)
     ELSE IF major = 4 THEN deserialize_bytes(inp, position)
     ELSE IF major = 5 THEN deserialize_seq(inp, position)
     ELSE deserialize_map(inp, position)

(***************************************************************************)
(* The compact round trip: a value is encoded by to_vec and the bytes are  *)
(* decoded again by Value::deserialize.                                    *)
(***************************************************************************)

(* The smallest count that needs the four byte form. *)
BigCount == 65536

Nils(n) == Array([i \in 1..n |-> Nil])

(* Integers at the edges of every encoded width. *)
WidthInts ==
  {Int64(i64(n)) : n \in {27, 28, 127, 128, -128, -129, 32767, 32768, -32768,
                          -32769, 2147483647, -2147483647 - 1}}
    \cup {Int64(<<0, 0, 0, 0, 128, 0, 0, 0>>), Int64(<<255, 255, 255, 255, 127, 255, 255, 255>>)}

(* Collections at the edges of every encoded count width. *)
WideCollections ==
  {Nils(n) : n \in {27, 28, 255, 256, BigCount - 1, BigCount}}
    \cup {Map([i \in 1..28 |-> <<Int64(i64(i - 1)), Nil>>])}

(* Integers around zero: inline, one byte and negative encodings. *)
SmallInts == {Int64(i64(n)) : n \in -32..32}

CompactValues == Values \cup SmallInts \cup WidthInts \cup WideCollections

InitCompact ==
  /\ a = Nil
  /\ b = Nil
  /\ c = Nil
  /\ op = "new"
  /\ res = "none"
  /\ NoCodec

(* One run of the round trip target on the value v: encode, then decode the
   encoded bytes from position 0. *)
Roundtrip ==
  /\ op = "new"
  /\ \E v \in CompactValues :
      /\ a' = v
      /\ out' = to_vec(v)
      /\ decoded' = deserialize_any(out', 0)
      /\ op' = "roundtrip"
      /\ UNCHANGED <<b, c, res, tv, indentation, input, p, serializer, collections>>

NextCompact == Roundtrip

SpecCompact == InitCompact /\ [][NextCompact]_vars

(* C1: decoding the bytes of to_vec(v) succeeds, returns a value equal to v
   and leaves the position at the end of those bytes. *)
C1_Claim ==
  op = "roundtrip" =>
    /\ decoded.ok
    /\ eq(decoded.val, a)
    /\ decoded.pos = Len(out)

(* C13: the compact encoder writes every NaN float, whatever its bits, as
   the byte 0x40 followed by eight bytes 0xFF, so that any two equal values
   have identical encodings. *)
C13_Claim ==
  (op = "roundtrip" /\ tag(a) = TFloat) =>
    /\ is_nan(payload(a)) => out = <<64>> \o NAN_ONES
    /\ \A f \in Floats : eq(a, Float(f)) => to_vec(Float(f)) = out

(* The smallest signed width of 1, 2, 4 or 8 bytes that holds n. *)
least_width(n) ==
  IF fits(n, 1) THEN 1 ELSE IF fits(n, 2) THEN 2 ELSE IF fits(n, 4) THEN 4 ELSE 8

(* The form asked of an int: inline up to the bound given, and otherwise the
   argument of the smallest width and the last bytes of n. *)
int_form(n, inline) ==
  IF (\A i \in 1..7 : n[i] = 0) /\ n[8] <= inline THEN <<96 + n[8]>>
  ELSE IF least_width(n) = 1 THEN <<124, n[8]>>
  ELSE IF least_width(n) = 2 THEN <<125, n[7], n[8]>>
  ELSE IF least_width(n) = 4 THEN <<126, n[5], n[6], n[7], n[8]>>
  ELSE <<127>> \o n

(* C24 as stated: an int n is written in the inline form when 0 <= n <= 11,
   and otherwise in the form of the smallest of 1, 2, 4 and 8 bytes that
   holds n as a signed big-endian integer. *)
C24_Original ==
  (op = "roundtrip" /\ tag(a) = TInt) => out = int_form(payload(a), 11)

(* C24, amended: an int n is written in the inline form when 0 <= n <= 27,
   and otherwise in the form of the smallest of 1, 2, 4 and 8 bytes that
   holds n as a signed big-endian integer; -1 is written as 0x7C 0xFF. *)
C24_Theorem ==
  (op = "roundtrip" /\ tag(a) = TInt) =>
    /\ out = int_form(payload(a), 27)
    /\ a = Int64(i64(-1)) => out = <<124, 255>>

(* The int 12 is written as the one byte 0x6C. *)
C24_Witness ==
  /\ op = "roundtrip"
  /\ a = Int64(i64(12))
  /\ out = <<108>>

(***************************************************************************)
(* TestValue: a value together with the choices of how to encode it.       *)
(***************************************************************************)

KNil == 0
KBool == 1
KInt == 2
KFloat == 3
KByteString == 4
KArray == 5
KSet == 6
KMap == 7

TestNil == <<KNil, 0, 0>>
TestBool(x) == <<KBool, x, 0>>
TestInt(n, bytes) == <<KInt, n, bytes>>
TestFloat(bits) == <<KFloat, bits, 0>>
TestByteString(elements, count_width) == <<KByteString, elements, count_width>>
TestArray(elements, count_width) == <<KArray, elements, count_width>>
TestSet(elements, count_width) == <<KSet, elements, count_width>>
TestMap(elements, count_width) == <<KMap, elements, count_width>>

(* The width that is written for a requested width of at least the
   smallest one: 3 becomes 2, 5..7 become 4, more than 8 becomes 8. *)
normalise(width) ==
  IF width = 3 THEN 2
  ELSE IF width >= 5 /\ width <= 7 THEN 4
  ELSE IF width > 8 THEN 8
  ELSE width

(* Int::encode. *)
int_encode(n, bytes) ==
  LET least == IF (\A i \in 1..7 : n[i] = 0) /\ n[8] <= 27 THEN 0
               ELSE IF fits(n, 1) THEN 1
               ELSE IF fits(n, 2) THEN 2
               ELSE IF fits(n, 4) THEN 4
               ELSE 8
      width == normalise(Max(least, bytes))
  IN IF width = 0 THEN <<96 + n[8]>>
     ELSE IF width = 1 THEN <<124>> \o SubSeq(n, 8, 8)
     ELSE IF width = 2 THEN <<125>> \o SubSeq(n, 7, 8)
     ELSE IF width = 4 THEN <<126>> \o SubSeq(n, 5, 8)
     ELSE <<127>> \o n

encode_count(n, count_width, mask) ==
  LET least == IF n <= 27 THEN 0
               ELSE IF n <= 255 THEN 1
               ELSE IF n <= 65535 THEN 2
               ELSE 4
      width == normalise(Max(least, count_width))
  IN IF width = 0 THEN <<mask + n>>
     ELSE IF width = 1 THEN <<mask + 28>> \o to_be_bytes(n, 1)
     ELSE IF width = 2 THEN <<mask + 29>> \o to_be_bytes(n, 2)
     ELSE IF width = 4 THEN <<mask + 30>> \o to_be_bytes(n, 4)
     ELSE <<mask + 31>> \o to_be_bytes(n, 8)

kind(t) == t[1]
content(t) == t[2]
width_of(t) == t[3]

(* TestValue::encode. *)
RECURSIVE encode(_)
encode(t) ==
  LET n == Len(content(t))
  IN IF kind(t) = KNil THEN <<0>>
     ELSE IF kind(t) = KBool THEN (IF content(t) THEN <<33>> ELSE <<32>>)
     ELSE IF kind(t) = KFloat THEN <<64>> \o content(t)
     ELSE IF kind(t) = KInt THEN int_encode(content(t), width_of(t))
     ELSE IF kind(t) = KByteString
       THEN encode_count(n, width_of(t), 128) \o content(t)
     ELSE IF kind(t) = KArray
       THEN encode_count(n, width_of(t), 160)
              \o concat([i \in 1..n |-> encode(content(t)[i])])
     ELSE IF kind(t) = KSet
       THEN encode_count(n, width_of(t), 192)
              \o concat([i \in 1..n |-> encode(content(t)[i])])
     ELSE encode_count(n, width_of(t), 224)
            \o concat([i \in 1..n |->
                         encode(content(t)[i][1]) \o encode(content(t)[i][2])])

(* TestValue::to_value. *)
RECURSIVE to_value(_)
to_value(t) ==
  LET n == Len(content(t))
  IN IF kind(t) = KNil THEN Nil
     ELSE IF kind(t) = KBool THEN Bool(content(t))
     ELSE IF kind(t) = KFloat THEN Float(content(t))
     ELSE IF kind(t) = KInt THEN Int64(content(t))
     ELSE IF kind(t) = KByteString
       THEN Array([i \in 1..n |-> Int64(sign_extend(<<0, content(t)[i]>>))])
     ELSE IF kind(t) = KArray
       THEN Array([i \in 1..n |-> to_value(content(t)[i])])
     ELSE IF kind(t) = KSet
       THEN Map(collect(<<>>, [i \in 1..n |-> <<to_value(content(t)[i]), Nil>>]))
     ELSE Map(collect(<<>>, [i \in 1..n |->
                <<to_value(content(t)[i][1]), to_value(content(t)[i][2])>>]))

(* The TestValues the decoder is explored on. *)
Widths == {0, 1, 2, 3, 4, 6, 8, 9, 255}

TestInts == {i64(0), i64(27), i64(28), i64(-1), i64(-129), i64(32768), I64_MIN}

TestScalars ==
  {TestNil, TestBool(FALSE), TestBool(TRUE)}
    \cup {TestFloat(f) : f \in {NAN, NAN_ONES, ONE_HALF}}
    \cup {TestInt(n, w) : n \in TestInts, w \in Widths}

TestElems ==
  {TestNil, TestInt(i64(1), 0), TestInt(i64(1), 2), TestFloat(NAN), TestFloat(NAN_ONES)}

TestByteStrings ==
  {TestByteString(e, w) : e \in SeqsUpTo({0, 255}, MaxLen), w \in Widths}
    \cup {TestByteString([i \in 1..n |-> 7], 0) : n \in {28, 256}}

TestArrays ==
  {TestArray(e, w) : e \in SeqsUpTo(TestElems, MaxLen), w \in Widths}
    \cup {TestArray([i \in 1..28 |-> TestNil], 0)}

TestSets == {TestSet(e, w) : e \in SeqsUpTo(TestElems, MaxLen), w \in Widths}

TestMaps ==
  {TestMap(e, w) : e \in SeqsUpTo(TestElems \X {TestNil, TestInt(i64(1), 1)}, MaxEntries),
                   w \in {0, 4, 9}}

TestNested ==
  { TestArray(<<TestSet(<<TestByteString(<<1>>, 1)>>, 2), TestMap(<<>>, 8)>>, 4),
    TestSet(<<TestArray(<<TestInt(i64(1), 0)>>, 0), TestByteString(<<1>>, 0)>>, 0),
    TestMap(<<<<TestSet(<<TestNil>>, 1), TestArray(<<TestNil>>, 1)>>,
              <<TestMap(<<<<TestNil, TestNil>>>>, 0), TestBool(TRUE)>>>>, 1),
    TestArray(<<TestArray(<<TestArray(<<TestFloat(NAN)>>, 8)>>, 2)>>, 1) }

TestValues ==
  TestScalars \cup TestByteStrings \cup TestArrays \cup TestSets \cup TestMaps
    \cup TestNested

InitTestValue ==
  /\ a = Nil
  /\ b = Nil
  /\ c = Nil
  /\ op = "new"
  /\ res = "none"
  /\ NoCodec

(* One run of the target on the TestValue t: encode it, take its value and
   decode the encoding from position 0. *)
DeserializeValid ==
  /\ op = "new"
  /\ \E t \in TestValues :
      /\ tv' = t
      /\ out' = encode(t)
      /\ a' = to_value(t)
      /\ decoded' = deserialize_any(out', 0)
      /\ op' = "deserialize_valid"
      /\ UNCHANGED <<b, c, res, indentation, input, p, serializer, collections>>

NextTestValue == DeserializeValid

SpecTestValue == InitTestValue /\ [][NextTestValue]_vars

(* C3: decoding the bytes written by tv.encode() succeeds and returns a
   value equal to tv.to_value(), whatever widths and representations the
   TestValue chooses. *)
C3_Theorem ==
  op = "deserialize_valid" =>
    /\ decoded.ok
    /\ eq(decoded.val, a)

(* An array that holds a non-empty set, decoded to an array whose first
   element is a map. *)
C3_Witness ==
  /\ op = "deserialize_valid"
  /\ kind(tv) = KArray
  /\ \E i \in 1..Len(content(tv)) :
        /\ kind(content(tv)[i]) = KSet
        /\ Len(content(content(tv)[i])) > 0
  /\ decoded.ok
  /\ eq(decoded.val, a)
  /\ tag(decoded.val[2][1]) = TMap

(***************************************************************************)
(* The decoder in canonic mode: the compact decoder together with the      *)
(* rules of the canonic form.                                              *)
(***************************************************************************)

(* Int::canonic: bytes is the width the integer is written with, 0 for the
   inline form. *)
int_canonic(n, bytes) ==
  IF (\A i \in 1..7 : n[i] = 0) /\ n[8] <= 27 THEN bytes <= 0
  ELSE IF fits(n, 1) THEN bytes <= 1
  ELSE IF fits(n, 2) THEN bytes <= 2
  ELSE IF fits(n, 4) THEN bytes <= 4
  ELSE TRUE

(* Smallest count width: the count is written with the least of the widths
   0 (inline), 1, 2, 4 and 8 that holds it. *)
count_canonic(n, width) ==
  IF n <= 27 THEN width <= 0
  ELSE IF n <= 255 THEN width <= 1
  ELSE IF n <= 65535 THEN width <= 2
  ELSE width <= 4

(* The width a head byte announces, 0 for the inline form. *)
head_width(byte) == IF byte % 32 >= 28 THEN Width(byte % 32) ELSE 0

canonic_count(inp, position, t, expected, out_of_bounds) ==
  LET count == parse_count(inp, position, t, expected, out_of_bounds)
  IN IF ~count.ok THEN count
     ELSE IF ~count_canonic(count.val, head_width(inp[position + 1]))
       THEN Fail("CanonicCount", position, count.pos)
     ELSE count

RECURSIVE deserialize_canonic(_, _)
RECURSIVE canonic_elements(_, _, _)
RECURSIVE canonic_entries(_, _, _)

canonic_elements(inp, position, len) ==
  IF len = 0 THEN Ok(<<>>, position)
  ELSE IF len = 1
    THEN LET r == deserialize_canonic(inp, position)
         IN IF r.ok THEN Ok(<<r.val>>, r.pos) ELSE r
  ELSE LET h == len \div 2
           r1 == canonic_elements(inp, position, h)
           r2 == canonic_elements(inp, r1.pos, len - h)
       IN IF ~r1.ok THEN r1
          ELSE IF ~r2.ok THEN r2
          ELSE Ok(r1.val \o r2.val, r2.pos)

canonic_entries(inp, position, len) ==
  IF len = 0 THEN Ok(<<>>, position)
  ELSE IF len = 1
    THEN LET k == deserialize_canonic(inp, position)
             v == deserialize_canonic(inp, k.pos)
         IN IF ~k.ok THEN k
            ELSE IF ~v.ok THEN v
            ELSE Ok(<<<<k.val, v.val>>>>, v.pos)
  ELSE LET h == len \div 2
           r1 == canonic_entries(inp, position, h)
           r2 == canonic_entries(inp, r1.pos, len - h)
       IN IF ~r1.ok THEN r1
          ELSE IF ~r2.ok THEN r2
          ELSE Ok(r1.val \o r2.val, r2.pos)

(* Keys in strictly ascending total order. *)
ascending(entries) ==
  \A i \in 1..(Len(entries) - 1) : cmp(entries[i][1], entries[i + 1][1]) = "Less"

deserialize_canonic(inp, position) ==
  LET head == peek(inp, position)
      major == head.val \div 32
      f == parse_float(inp, position)
      n == parse_int(inp, position)
      count == canonic_count(inp, position, 160, "ExpectedArray", "OutOfBoundsArray")
      elements == canonic_elements(inp, count.pos, count.val)
      mcount == canonic_count(inp, position, 224, "ExpectedMap", "OutOfBoundsMap")
      entries == canonic_entries(inp, mcount.pos, mcount.val)
  IN IF ~head.ok THEN head
     ELSE IF major = 0 THEN parse_nil(inp, position)
     ELSE IF major = 1 THEN parse_bool(inp, position)
     ELSE IF major = 2
       THEN IF f.ok /\ is_nan(payload(f.val)) /\ payload(f.val) # NAN_ONES
              THEN Fail("CanonicNaN", position, f.pos)
            ELSE f
     ELSE IF major = 3
       THEN IF n.ok /\ ~int_canonic(payload(n.val), head_width(head.val))
              THEN Fail("IntCanonicTooWide", position, n.pos)
            ELSE n
     ELSE IF major = 4 THEN Fail("CanonicByteString", position, position)
     ELSE IF major = 5
       THEN IF ~count.ok THEN count
            ELSE IF ~elements.ok THEN elements
            ELSE Ok(Array(elements.val), elements.pos)
     ELSE IF major = 6 THEN Fail("CanonicSet", position, position)
     ELSE IF ~mcount.ok THEN mcount
     ELSE IF ~entries.ok THEN entries
     ELSE IF ~ascending(entries.val) THEN Fail("CanonicMapOrder", position, entries.pos)
     ELSE Ok(Map(collect(<<>>, entries.val)), entries.pos)

(* The inputs of the canonicity target: every byte string of up to MaxInput
   bytes over head bytes of each kind, and longer inputs for floats, wide
   integers, maps of two entries and long arrays. *)
MaxInput == 4

HeadBytes == {0, 33, 96, 97, 124, 129, 161, 162, 188, 193, 225, 226}

Zeros(n) == [i \in 1..n |-> 0]

LongInputs ==
  {<<64>> \o f : f \in {NAN, NAN_ONES, ONE_HALF, NEG_ZERO}}
    \cup {<<125, 0, 1>>, <<125, 1, 0>>, <<126, 0, 0, 1, 0>>, <<126, 0, 1, 0, 0>>,
          <<127>> \o i64(1), <<127>> \o I64_MIN}
    \cup {<<226, 96, 0, 97, 0>>, <<226, 97, 0, 96, 0>>, <<226, 96, 0, 96, 0>>,
          <<225, 64>> \o NAN_ONES \o <<0>>}
    \cup {<<160 + 27>> \o Zeros(27), <<188, 27>> \o Zeros(27), <<188, 28>> \o Zeros(28),
          <<189, 0, 28>> \o Zeros(28), <<189, 1, 0>> \o Zeros(256),
          <<190, 0, 0, 1, 0>> \o Zeros(256)}
    \cup {<<190>> \o to_be_bytes(BigCount, 4) \o Zeros(BigCount),
          <<191>> \o to_be_bytes(BigCount, 8) \o Zeros(BigCount)}

Inputs == SeqsUpTo(HeadBytes, MaxInput) \cup LongInputs

InitCanonic ==
  /\ a = Nil
  /\ b = Nil
  /\ c = Nil
  /\ op = "new"
  /\ res = "none"
  /\ NoCodec

(* One run of the canonicity target on the bytes inp: decode in canonic
   mode from position 0 and, when that succeeds, encode the value again. *)
Canonicity ==
  /\ op = "new"
  /\ \E inp \in Inputs :
      /\ input' = inp
      /\ decoded' = deserialize_canonic(inp, 0)
      /\ out' = IF decoded'.ok THEN to_vec(decoded'.val) ELSE <<>>
      /\ op' = "canonicity"
      /\ UNCHANGED <<a, b, c, res, tv, indentation, p, serializer, collections>>

NextCanonic == Canonicity

SpecCanonic == InitCanonic /\ [][NextCanonic]_vars

(* C4: when the canonic decoder accepts the input, yielding a value and a
   final offset p, encoding that value again gives exactly the first p
   bytes of the input. *)
C4_Claim ==
  (op = "canonicity" /\ decoded.ok) => out = slice(input, 0, decoded.pos)

(***************************************************************************)
(* The deserialize_any target: the same bytes are decoded in permissive    *)
(* mode and in canonic mode.                                               *)
(***************************************************************************)

AnyHeadBytes == {0, 31, 33, 63, 97, 124, 131, 162, 194, 225}

(* Eight count bytes: 2^63 - 1, 2^63 and 2^64 - 1. *)
WideCounts ==
  {<<127, 255, 255, 255, 255, 255, 255, 255>>,
   <<128, 0, 0, 0, 0, 0, 0, 0>>,
   <<255, 255, 255, 255, 255, 255, 255, 255>>}

(* A header with the eight byte count form, with and without bytes after
   it. *)
CountInputs ==
  {<<t + 31>> \o n \o rest :
     t \in {128, 160, 192, 224}, n \in WideCounts,
     rest \in {<<>>, <<0>>, <<0, 0, 0, 0, 0>>, <<63, 255>>}}

AnyInputs == SeqsUpTo(AnyHeadBytes, MaxInput) \cup LongInputs \cup CountInputs

InitAny ==
  /\ a = Nil
  /\ b = Nil
  /\ c = Nil
  /\ op = "new"
  /\ res = "none"
  /\ NoCodec

(* One run of the target on the bytes inp: res is is_canonic. *)
DeserializeAny ==
  /\ op = "new"
  /\ \E inp \in AnyInputs :
      /\ input' = inp
      /\ decoded' = deserialize_any(inp, 0)
      /\ res' = deserialize_canonic(inp, 0).ok
      /\ op' = "deserialize_any"
      /\ UNCHANGED <<a, b, c, tv, indentation, out, p, serializer, collections>>

NextAny == DeserializeAny

SpecAny == InitAny /\ [][NextAny]_vars

(* C14: the permissive compact decoder decodes any byte whose top three
   bits are 000 as nil, ignoring the five argument bits; only canonic mode
   restricts the nil encoding to the byte 0x00. *)
C14_Claim ==
  (op = "deserialize_any" /\ Len(input) >= 1 /\ input[1] \div 32 = 0) =>
    /\ decoded.ok
    /\ decoded.val = Nil
    /\ decoded.pos = 1
    /\ res <=> input[1] = 0

(* The out-of-bounds error of the kind of the header byte. *)
out_of_bounds_of(byte) ==
  CASE byte \div 32 = 4 -> "OutOfBoundsString"
    [] byte \div 32 = 5 -> "OutOfBoundsArray"
    [] byte \div 32 = 6 -> "OutOfBoundsSet"
    [] byte \div 32 = 7 -> "OutOfBoundsMap"

(* The input is a byte string, array, set or map header with an eight byte
   count above 2^63 - 1, followed by anything. *)
count_above_i64_max(inp) ==
  Len(inp) >= 9 /\ inp[1] \div 32 >= 4 /\ inp[1] % 32 = 31 /\ inp[2] >= 128

(* C20: when a byte string, array, set or map header uses the eight byte
   count form and the count exceeds 2^63 - 1, the compact decoder fails with
   the out-of-bounds error of that kind, right after the count and before
   any element is read, whatever bytes follow. *)
C20_Theorem ==
  (op = "deserialize_any" /\ count_above_i64_max(input)) =>
    /\ ~decoded.ok
    /\ decoded.err = out_of_bounds_of(input[1])
    /\ decoded.pos = 9

(* An array header with the count 2^64 - 1 and five more bytes has been
   decoded to OutOfBoundsArray. *)
C20_Witness ==
  /\ op = "deserialize_any"
  /\ input = <<191, 255, 255, 255, 255, 255, 255, 255, 255, 0, 0, 0, 0, 0>>
  /\ ~decoded.ok
  /\ decoded.err = "OutOfBoundsArray"

(***************************************************************************)
(* The typed round trip of the compact encoding: a TestEnum is written     *)
(* through the Serializer methods its derived Serialize calls and read     *)
(* back through the Deserializer methods its derived Deserialize calls.    *)
(* A TestEnum is <<variant, payload>>, names are byte strings.             *)
(***************************************************************************)

NameA == <<65>>
NameB == <<66>>
NameC == <<67>>
NameD == <<68>>
NameE == <<69>>
NameZ == <<90>>
NameY == <<89>>
NameField == <<102, 105, 101, 108, 100>>
NameFoo == <<102, 111, 111>>
NameBar == <<98, 97, 114>>

(* The fields of the struct variants, in declaration order. *)
Fields(variant) ==
  IF variant = NameD THEN <<NameField>>
  ELSE IF variant = NameE THEN <<NameFoo, NameBar>>
  ELSE <<>>

serialize_bytes(v) == serialize_count(Len(v), 128) \o v

serialize_str(v) == serialize_bytes(v)

(* serialize_u8 and serialize_i8: both end in serialize_i64. *)
serialize_small(n) == serialize_i64(i64(n))

serialize_unit_variant(variant) == serialize_str(variant)

serialize_newtype_variant(variant, value) == <<225>> \o serialize_str(variant) \o value

serialize_tuple_variant(variant, len) ==
  <<225>> \o serialize_str(variant)
    \o (IF len # 1 THEN serialize_count(len, 160) ELSE <<>>)

serialize_struct_variant(variant, len) == <<225>> \o serialize_str(variant)

(* SerializeStructVariant::serialize_field. *)
serialize_variant_field(key, value) == <<225>> \o serialize_str(key) \o value

(* The derived Serialize of TestEnum. *)
TestEnum_serialize(e) ==
  LET variant == e[1]
      payload_bytes == [i \in 1..Len(e[2]) |-> serialize_small(e[2][i])]
      fields == [i \in 1..Len(e[2]) |->
                   serialize_variant_field(Fields(variant)[i], payload_bytes[i])]
  IN IF variant = NameA THEN serialize_unit_variant(variant)
     ELSE IF variant = NameB THEN serialize_newtype_variant(variant, payload_bytes[1])
     ELSE IF variant \in {NameC, NameZ}
       THEN serialize_tuple_variant(variant, Len(e[2])) \o concat(payload_bytes)
     ELSE serialize_struct_variant(variant, Len(e[2])) \o concat(fields)

(* The number held by an eight byte integer within -128..255. *)
small(v) == IF v[1] >= 128 THEN v[8] - 256 ELSE v[8]

deserialize_u8(inp, position) ==
  LET r == parse_int(inp, position)
  IN IF ~r.ok THEN r
     ELSE IF \E i \in 1..7 : payload(r.val)[i] # 0
       THEN Fail("OutOfBoundsU8", position, r.pos)
     ELSE Ok(small(payload(r.val)), r.pos)

deserialize_i8(inp, position) ==
  LET r == parse_int(inp, position)
  IN IF ~r.ok THEN r
     ELSE IF ~fits(payload(r.val), 1) THEN Fail("OutOfBoundsI8", position, r.pos)
     ELSE Ok(small(payload(r.val)), r.pos)

(* deserialize_string, and deserialize_identifier through it: the arm of a
   string written as an array of ints is left out, no name is written so. *)
deserialize_string(inp, position) ==
  LET head == peek(inp, position)
      bytes == parse_bytes(inp, position)
  IN IF ~head.ok THEN head
     ELSE IF head.val \div 32 = 5 THEN Fail("ArrayStringNotExplored", position, position)
     ELSE IF ~bytes.ok THEN bytes
     ELSE IF \E i \in 1..Len(bytes.val) : bytes.val[i] >= 128
       THEN Fail("Utf8", bytes.pos, bytes.pos)
     ELSE bytes

(* EnumAccess::variant_seed: val is <<the name, the set flag>>. *)
variant_seed(inp, position) ==
  LET head == peek(inp, position)
      name == deserialize_string(inp, IF head.val \in {193, 225} THEN position + 1
                                      ELSE position)
  IN IF ~head.ok THEN head
     ELSE IF head.val \div 32 \notin {4, 5} /\ head.val \notin {193, 225}
       THEN Fail("ExpectedEnumVariant", position, position)
     ELSE IF ~name.ok THEN name
     ELSE Ok(<<name.val, head.val = 193>>, name.pos)

(* The field of a variant is an i8, but for bar and the tuple fields. *)
deserialize_field(inp, position, signed) ==
  IF signed THEN deserialize_i8(inp, position) ELSE deserialize_u8(inp, position)

(* VariantAccess::tuple_variant with the derived visitor of a variant of
   arity fields: deserialize_seq, then next_element_seed once per field. *)
RECURSIVE tuple_elements(_, _, _, _, _)
tuple_elements(inp, position, len, arity, acc) ==
  IF Len(acc) = arity THEN Ok(acc, position)
  ELSE IF Len(acc) >= len THEN Fail("invalid_length", position, position)
  ELSE LET r == deserialize_u8(inp, position)
       IN IF ~r.ok THEN r
          ELSE tuple_elements(inp, r.pos, len, arity, Append(acc, r.val))

tuple_variant(inp, position, arity) ==
  LET head == peek(inp, position)
      count == parse_count(inp, position, 160, "ExpectedArray", "OutOfBoundsArray")
  IN IF ~head.ok THEN head
     ELSE IF head.val \div 32 = 4 THEN Fail("BytesAsSeqNotExplored", position, position)
     ELSE IF head.val \div 32 # 5 THEN Fail("ExpectedArray", position, position)
     ELSE IF ~count.ok THEN count
     ELSE tuple_elements(inp, count.pos, count.val, arity, <<>>)

has_field(fields, name) == \E i \in 1..Len(fields) : fields[i] = name

index_of(fields, name) == CHOOSE i \in 1..Len(fields) : fields[i] = name

(* next_value_seed for the key name: the value of a field, or any value,
   which is ignored, for a key that is no field. *)
field_value(inp, position, set, fields, name) ==
  IF set THEN Fail("InvalidSet", position, position)
  ELSE IF has_field(fields, name) THEN deserialize_field(inp, position, name # NameBar)
  ELSE deserialize_any(inp, position)

put_field(acc, fields, name, value) ==
  IF has_field(fields, name) THEN [acc EXCEPT ![index_of(fields, name)] = <<value>>]
  ELSE acc

(* VariantAccess::struct_variant with the derived visitor of a variant with
   the given fields: deserialize_map, then next_key_seed and
   next_value_seed until there is no further key; acc holds for every
   field the value read for it, if any. *)
RECURSIVE struct_entries(_, _, _, _, _, _)

(* The rest of the entries once the value v of the entry with the key key
   has been read. *)
struct_entry_value(inp, key, v, len, set, fields, acc) ==
  IF ~v.ok THEN v
  ELSE struct_entries(inp, v.pos, len - 1, set, fields,
                      put_field(acc, fields, key.val, v.val))

(* The entry whose key key has been read: a field that has its value already
   is a duplicate. *)
struct_entry(inp, key, len, set, fields, acc) ==
  IF ~key.ok THEN key
  ELSE IF has_field(fields, key.val) /\ acc[index_of(fields, key.val)] # <<>>
    THEN Fail("duplicate_field", key.pos, key.pos)
  ELSE struct_entry_value(inp, key, field_value(inp, key.pos, set, fields, key.val),
                          len, set, fields, acc)

struct_entries(inp, position, len, set, fields, acc) ==
  IF len = 0
    THEN IF \E i \in 1..Len(fields) : acc[i] = <<>>
           THEN Fail("missing_field", position, position)
         ELSE Ok([i \in 1..Len(fields) |-> acc[i][1]], position)
  ELSE struct_entry(inp, deserialize_string(inp, position), len, set, fields, acc)

struct_variant(inp, position, fields) ==
  LET head == peek(inp, position)
      set == head.val \div 32 = 6
      count == IF set
                 THEN parse_count(inp, position, 192, "ExpectedMap", "OutOfBoundsSet")
                 ELSE parse_count(inp, position, 224, "ExpectedMap", "OutOfBoundsMap")
  IN IF ~head.ok THEN head
     ELSE IF head.val \div 32 \notin {6, 7} THEN Fail("ExpectedMap", position, position)
     ELSE IF ~count.ok THEN count
     ELSE struct_entries(inp, count.pos, count.val, set, fields,
                         [i \in 1..Len(fields) |-> <<>>])

(* The payload of one field holding the value r. *)
one_field(r) == IF ~r.ok THEN r ELSE Ok(<<r.val>>, r.pos)

(* VariantAccess::newtype_variant_seed for a u8: AlwaysNil holds no u8. *)
newtype_variant_seed(inp, position, set) ==
  IF set THEN Fail("InvalidSet", position, position)
  ELSE one_field(deserialize_u8(inp, position))

(* The payload of the variant name, read at position by the VariantAccess
   method that the derived visitor of TestEnum calls for it; unit_variant
   reads nothing. *)
variant_payload(inp, position, name, set) ==
  IF name = NameA THEN Ok(<<>>, position)
  ELSE IF name = NameB THEN newtype_variant_seed(inp, position, set)
  ELSE IF name = NameC THEN tuple_variant(inp, position, 2)
  ELSE IF name = NameZ THEN tuple_variant(inp, position, 0)
  ELSE struct_variant(inp, position, Fields(name))

(* The enum of the variant name with the payload r. *)
visit_variant(name, r) == IF ~r.ok THEN r ELSE Ok(<<name, r.val>>, r.pos)

(* visit_enum of the derived visitor, variant being what variant_seed
   returned. *)
visit_enum(inp, variant) ==
  IF ~variant.ok THEN variant
  ELSE IF variant.val[1] \notin {NameA, NameB, NameC, NameD, NameE, NameZ, NameY}
    THEN Fail("unknown_variant", variant.pos, variant.pos)
  ELSE visit_variant(variant.val[1],
                     variant_payload(inp, variant.pos, variant.val[1], variant.val[2]))

(* deserialize_enum with the derived visitor of TestEnum. *)
deserialize_enum(inp, position) ==
  IF ~peek(inp, position).ok THEN peek(inp, position)
  ELSE IF peek(inp, position).val \div 32 \notin {4, 5, 6, 7}
    THEN Fail("ExpectedEnum", position, position)
  ELSE visit_enum(inp, variant_seed(inp, position))

U8s == {0, 1, 27, 28, 127, 128, 255}
I8s == {-128, -1, 0, 27, 28, 127}

TestEnums ==
  {<<NameA, <<>>>>, <<NameZ, <<>>>>, <<NameY, <<>>>>}
    \cup {<<NameB, <<n>>>> : n \in U8s}
    \cup {<<NameC, <<n, k>>>> : n \in U8s, k \in U8s}
    \cup {<<NameD, <<n>>>> : n \in I8s}
    \cup {<<NameE, <<n, k>>>> : n \in I8s, k \in U8s}

InitTyped ==
  /\ a = Nil
  /\ b = Nil
  /\ c = Nil
  /\ op = "new"
  /\ res = "none"
  /\ NoCodec

(* One run of the typed target on the TestEnum e. *)
Typed ==
  /\ op = "new"
  /\ \E e \in TestEnums :
      /\ tv' = e
      /\ out' = TestEnum_serialize(e)
      /\ decoded' = deserialize_enum(out', 0)
      /\ op' = "typed"
      /\ UNCHANGED <<a, b, c, res, indentation, input, p, serializer, collections>>

NextTyped == Typed

SpecTyped == InitTyped /\ [][NextTyped]_vars

(* The value that holds the payload of a variant: the one after the map
   header and the variant name. *)
payload_value(bytes) ==
  deserialize_any(bytes, deserialize_string(bytes, 1).pos)

(* C15: for every TestEnum, with unit, newtype, tuple and struct variants
   of zero, one or several fields, compact decoding of its compact encoding
   succeeds and returns the original value; each data-carrying variant is
   encoded as exactly one single-entry map keyed by the variant name whose
   value holds the whole payload. *)
C15_Claim ==
  op = "typed" =>
    /\ decoded.ok
    /\ decoded.val = tv
    /\ tv[1] # NameA =>
         /\ out[1] = 225
         /\ deserialize_string(out, 1).val = tv[1]
         /\ payload_value(out).ok
         /\ payload_value(out).pos = Len(out)

(***************************************************************************)
(* The human-readable encoding.  Text is a sequence of bytes.              *)
(***************************************************************************)

(* itoa and i64::from_str_radix on eight byte big-endian integers. *)

(* bytes * radix + d from the last byte on: <<the eight low bytes, the
   carry>>. *)
RECURSIVE mul_add(_, _, _, _)
mul_add(bytes, i, carry, radix) ==
  IF i = 0 THEN <<bytes, carry>>
  ELSE LET cur == bytes[i] * radix + carry
       IN mul_add([bytes EXCEPT ![i] = cur % 256], i - 1, cur \div 256, radix)

(* bytes / 10 from the first byte on: <<the quotient, the remainder>>. *)
RECURSIVE divmod10(_, _, _)
divmod10(bytes, i, carry) ==
  IF i > Len(bytes) THEN <<bytes, carry>>
  ELSE LET cur == carry * 256 + bytes[i]
       IN divmod10([bytes EXCEPT ![i] = cur \div 10], i + 1, cur % 10)

(* Two's complement negation (wrapping). *)
RECURSIVE add_one(_, _)
add_one(bytes, i) ==
  IF i = 0 THEN bytes
  ELSE IF bytes[i] = 255 THEN add_one([bytes EXCEPT ![i] = 0], i - 1)
  ELSE [bytes EXCEPT ![i] = bytes[i] + 1]

wrapping_neg(bytes) == add_one([i \in 1..8 |-> 255 - bytes[i]], 8)

RECURSIVE decimal_digits(_)
decimal_digits(magnitude) ==
  IF \A i \in 1..8 : magnitude[i] = 0 THEN <<>>
  ELSE LET qr == divmod10(magnitude, 1, 0)
       IN decimal_digits(qr[1]) \o <<48 + qr[2]>>

(* itoa::Buffer::format for an i64. *)
itoa(v) ==
  IF \A i \in 1..8 : v[i] = 0 THEN <<48>>
  ELSE IF v[1] >= 128 THEN <<45>> \o decimal_digits(wrapping_neg(v))
  ELSE decimal_digits(v)

is_digit(byte) == byte >= 48 /\ byte <= 57

is_hex_digit(byte) ==
  is_digit(byte) \/ (byte >= 65 /\ byte <= 70) \/ (byte >= 97 /\ byte <= 102)

is_binary_digit(byte) == byte = 48 \/ byte = 49

(* char::to_digit. *)
to_digit(byte) ==
  IF is_digit(byte) THEN byte - 48
  ELSE IF byte >= 97 THEN byte - 87
  ELSE byte - 55

(* The magnitude of a run of digits: <<eight bytes, overflowed>>. *)
RECURSIVE accumulate(_, _, _, _, _)
accumulate(digits, i, magnitude, overflow, radix) ==
  IF i > Len(digits) THEN <<magnitude, overflow>>
  ELSE LET r == mul_add(magnitude, 8, to_digit(digits[i]), radix)
       IN IF r[2] # 0 THEN accumulate(digits, i + 1, r[1], TRUE, radix)
          ELSE accumulate(digits, i + 1, r[1], overflow, radix)

(* i64::from_str_radix on an optional sign and at least one digit: the
   result is out of bounds above 2^63 - 1 and below -2^63. *)
from_str_radix(text, radix) ==
  LET negative == text[1] = 45
      signed == text[1] = 45 \/ text[1] = 43
      digits == IF signed THEN Tail(text) ELSE text
      m == accumulate(digits, 1, i64(0), FALSE, radix)
  IN IF m[2] THEN [ok |-> FALSE, val |-> i64(0)]
     ELSE IF negative
       THEN (IF m[1][1] < 128 \/ m[1] = I64_MIN
               THEN [ok |-> TRUE, val |-> wrapping_neg(m[1])]
             ELSE [ok |-> FALSE, val |-> i64(0)])
     ELSE IF m[1][1] < 128 THEN [ok |-> TRUE, val |-> m[1]]
     ELSE [ok |-> FALSE, val |-> i64(0)]

i64_from_decimal(text) == from_str_radix(text, 10)

i64_from_hex(text) == from_str_radix(text, 16)

i64_from_binary(text) == from_str_radix(text, 2)

(* The text of the finite floats that are explored: pretty_dtoa::dtoa with
   add_point_zero. *)
dtoa(v) ==
  CASE v = POS_ZERO -> <<48, 46, 48>>
    [] v = NEG_ZERO -> <<45, 48, 46, 48>>
    [] v = ONE_HALF -> <<49, 46, 53>>
    [] v = NEG_ONE_HALF -> <<45, 49, 46, 53>>
    [] v = TWO_HALF -> <<50, 46, 53>>
    [] v = NEG_TWO_HALF -> <<45, 50, 46, 53>>

(* f64::from_str on a decimal text of the float grammar: the sign is read
   apart from the magnitude. *)
f64_from_s(text) ==
  LET negative == text[1] = 45
      signed == text[1] = 45 \/ text[1] = 43
      digits == IF signed THEN Tail(text) ELSE text
      known == digits \in {<<48, 46, 48>>, <<49, 46, 53>>, <<50, 46, 53>>}
      magnitude == CASE digits = <<48, 46, 48>> -> POS_ZERO
                     [] digits = <<49, 46, 53>> -> ONE_HALF
                     [] digits = <<50, 46, 53>> -> TWO_HALF
  IN IF ~known THEN [ok |-> FALSE, val |-> POS_ZERO]
     ELSE IF negative THEN [ok |-> TRUE, val |-> [magnitude EXCEPT ![1] = @ + 128]]
     ELSE [ok |-> TRUE, val |-> magnitude]

(* The human-readable serializer.  s is the serializer: out, the current
   indentation and the multiline flag; n is its indentation. *)
VVSerializer_new ==
  [out |-> <<>>, current_indentation |-> 0, multiline |-> FALSE]

push(s, bytes) == [s EXCEPT !.out = @ \o bytes]

(* indentation spaces, whatever the current indentation. *)
indent_flat(s, n) ==
  push(s, [i \in 1..(IF s.current_indentation = 0 THEN 0 ELSE n) |-> 32])

(* current_indentation times indentation spaces. *)
indent(s, n) == push(s, [i \in 1..(s.current_indentation * n) |-> 32])

human_serialize_bool(s, v) ==
  push(s, IF v THEN <<116, 114, 117, 101>> ELSE <<102, 97, 108, 115, 101>>)

human_serialize_i64(s, v) == push(s, itoa(v))

human_serialize_f64(s, v) ==
  IF is_nan(v) THEN push(s, <<78, 97, 78>>)
  ELSE IF v = INFINITY THEN push(s, <<73, 110, 102>>)
  ELSE IF v = NEG_INFINITY THEN push(s, <<45, 73, 110, 102>>)
  ELSE push(s, dtoa(v))

human_serialize_unit(s) == push(s, <<110, 105, 108>>)

(* serialize_seq and serialize_map: opening is the bracket or the brace. *)
open_collection(s, len, n, opening) ==
  LET s1 == push(s, <<opening>>)
  IN IF len <= 1 THEN [s1 EXCEPT !.multiline = FALSE]
     ELSE [(IF n # 0 THEN push(s1, <<10>>) ELSE s1)
             EXCEPT !.multiline = TRUE, !.current_indentation = @ + 1]

human_serialize_seq(s, len, n) == open_collection(s, len, n, 91)

human_serialize_map(s, len, n) == open_collection(s, len, n, 123)

(* The end of a collection that leaves the comma of the last element. *)
end_keep(s, n, closing) ==
  LET s1 == IF s.multiline
              THEN indent([s EXCEPT !.current_indentation = @ - 1], n)
              ELSE s
  IN push(s1, <<closing>>)

(* SerializeSeq::end and SerializeMap::end. *)
end(s, n, closing) ==
  LET s1 == IF s.multiline
              THEN indent([s EXCEPT !.current_indentation = @ - 1], n)
              ELSE s
      s2 == IF s1.out[Len(s1.out)] = 44
              THEN [s1 EXCEPT !.out = SubSeq(@, 1, Len(@) - 1)]
              ELSE s1
  IN push(s2, <<closing>>)

RECURSIVE human_serialize(_, _, _)

(* An element written without the comma after it. *)
serialize_element_bare(s, value, n) ==
  LET old == s.multiline
      s1 == IF old THEN indent(s, n) ELSE s
  IN [human_serialize(value, s1, n) EXCEPT !.multiline = old]

serialize_element(s, value, n) ==
  LET old == s.multiline
      s1 == IF old THEN indent(s, n) ELSE s
      s2 == [human_serialize(value, s1, n) EXCEPT !.multiline = old]
  IN IF old THEN push(s2, IF n # 0 THEN <<44, 10>> ELSE <<44>>) ELSE s2

serialize_key(s, key, n) ==
  LET old == s.multiline
      s1 == IF old THEN indent(s, n) ELSE s
      s2 == [human_serialize(key, s1, n) EXCEPT !.multiline = old]
  IN push(s2, IF n # 0 THEN <<58, 32>> ELSE <<58>>)

serialize_value(s, value, n) ==
  LET old == s.multiline
      s2 == [human_serialize(value, s, n) EXCEPT !.multiline = old]
  IN IF old THEN push(s2, IF n # 0 THEN <<44, 10>> ELSE <<44>>) ELSE s2

RECURSIVE serialize_elements(_, _, _, _)
serialize_elements(s, elements, i, n) ==
  IF i > Len(elements) THEN s
  ELSE serialize_elements(serialize_element(s, elements[i], n), elements, i + 1, n)

RECURSIVE serialize_entries(_, _, _, _)
serialize_entries(s, entries, i, n) ==
  IF i > Len(entries) THEN s
  ELSE serialize_entries(
         serialize_value(serialize_key(s, entries[i][1], n), entries[i][2], n),
         entries, i + 1, n)

(* Serialize for Value, driving the human-readable serializer. *)
human_serialize(v, s, n) ==
  IF tag(v) = TNil THEN human_serialize_unit(s)
  ELSE IF tag(v) = TBool THEN human_serialize_bool(s, payload(v))
  ELSE IF tag(v) = TInt THEN human_serialize_i64(s, payload(v))
  ELSE IF tag(v) = TFloat THEN human_serialize_f64(s, payload(v))
  ELSE IF tag(v) = TArray
    THEN end(serialize_elements(human_serialize_seq(s, Len(payload(v)), n),
                                payload(v), 1, n), n, 93)
  ELSE end(serialize_entries(human_serialize_map(s, Len(payload(v)), n),
                             payload(v), 1, n), n, 125)

human_to_vec(value, n) == human_serialize(value, VVSerializer_new, n).out

(* The human-readable deserializer. *)

is_ws(byte) == byte = 9 \/ byte = 10 \/ byte = 13 \/ byte = 32

starts_with(inp, position, expected) ==
  /\ position + Len(expected) <= Len(inp)
  /\ slice(inp, position, position + Len(expected)) = expected

expect_bytes(inp, position, exp, e) ==
  IF starts_with(inp, position, exp) THEN Ok(exp, position + Len(exp))
  ELSE Fail(e, position, position)

(* comment: the position after the end of the line. *)
RECURSIVE comment(_, _)
comment(inp, position) ==
  IF position >= Len(inp) THEN position
  ELSE IF inp[position + 1] = 10 THEN position + 1
  ELSE comment(inp, position + 1)

(* spaces: the position after white space and comments. *)
RECURSIVE spaces(_, _)
spaces(inp, position) ==
  IF position >= Len(inp) THEN position
  ELSE IF is_ws(inp[position + 1]) THEN spaces(inp, position + 1)
  ELSE IF inp[position + 1] = 35 THEN spaces(inp, comment(inp, position + 1))
  ELSE position

(* skip(is_digit_or_underscore) and its hexadecimal and binary variants. *)
RECURSIVE skip(_, _, _)
skip(inp, position, radix) ==
  IF position >= Len(inp) THEN position
  ELSE IF inp[position + 1] = 95
            \/ (radix = 10 /\ is_digit(inp[position + 1]))
            \/ (radix = 16 /\ is_hex_digit(inp[position + 1]))
            \/ (radix = 2 /\ is_binary_digit(inp[position + 1]))
    THEN skip(inp, position + 1, radix)
  ELSE position

without_underscores(text) == SelectSeq(text, LAMBDA x : x # 95)

human_parse_nil(inp, position) ==
  LET r == expect_bytes(inp, position, <<110, 105, 108>>, "ExpectedNil")
  IN IF r.ok THEN Ok(Nil, r.pos) ELSE r

human_parse_bool(inp, position) ==
  LET r == expect_bytes(inp, position, <<116, 114, 117, 101>>, "ExpectedBool")
  IN IF starts_with(inp, position, <<102, 97, 108, 115, 101>>)
       THEN Ok(Bool(FALSE), position + 5)
     ELSE IF r.ok THEN Ok(Bool(TRUE), r.pos)
     ELSE r

(* The integer of the digits in inp[from..to) in the given radix. *)
parse_digits(inp, from, to, radix) ==
  LET r == from_str_radix(without_underscores(slice(inp, from, to)), radix)
  IN IF r.ok THEN Ok(Int64(r.val), to) ELSE Fail("IntOutOfBounds", to, to)

(* The float of the text in inp[from..to). *)
parse_decimal(inp, from, to) ==
  LET r == f64_from_s(without_underscores(slice(inp, from, to)))
  IN IF r.ok THEN Ok(Float(r.val), to) ELSE Fail("FloatNotExplored", from, to)

(* parse_number, given the position after the integer digits. *)
parse_fraction(inp, start, digits_end) ==
  LET point == digits_end + 1
      first == peek(inp, point)
      fraction_end == skip(inp, point, 10)
      exponent == fraction_end < Len(inp) /\ inp[fraction_end + 1] \in {69, 101}
      e1 == fraction_end + 1
      e2 == IF starts_with(inp, e1, <<45>>) \/ starts_with(inp, e1, <<43>>)
              THEN e1 + 1 ELSE e1
      efirst == peek(inp, e2)
  IN IF ~first.ok THEN first
     ELSE IF ~is_digit(first.val) THEN Fail("FloatNoTrailingDigits", point, point)
     ELSE IF ~exponent THEN parse_decimal(inp, start, fraction_end)
     ELSE IF ~efirst.ok THEN efirst
     ELSE IF ~is_digit(efirst.val) THEN Fail("FloatNoExponentDigits", e2, e2)
     ELSE parse_decimal(inp, start, skip(inp, e2, 10))

parse_number(inp, position) ==
  LET negative == starts_with(inp, position, <<45>>)
      has_sign == negative \/ starts_with(inp, position, <<43>>)
      p1 == IF has_sign THEN position + 1 ELSE position
      first == peek(inp, p1)
      is_hex == ~has_sign /\ starts_with(inp, p1, <<48, 120>>)
      is_binary == ~is_hex /\ ~has_sign /\ starts_with(inp, p1, <<48, 98>>)
      radix == IF is_hex THEN 16 ELSE 2
      d == peek(inp, p1 + 2)
      digits_end == skip(inp, p1, 10)
  IN IF ~first.ok THEN first
     ELSE IF first.val = 73
       THEN IF starts_with(inp, p1, <<73, 110, 102>>)
              THEN Ok(Float(IF negative THEN NEG_INFINITY ELSE INFINITY), p1 + 3)
            ELSE Fail("ExpectedFloat", p1, p1)
     ELSE IF first.val = 78
       THEN IF starts_with(inp, p1, <<78, 97, 78>>) THEN Ok(Float(NAN_ONES), p1 + 3)
            ELSE Fail("ExpectedFloat", p1, p1)
     ELSE IF is_hex \/ is_binary
       THEN IF ~d.ok THEN d
            ELSE IF (is_hex /\ ~is_hex_digit(d.val)) \/ (is_binary /\ ~is_binary_digit(d.val))
              THEN Fail("IntNoDigits", p1 + 2, p1 + 2)
            ELSE parse_digits(inp, p1 + 2, skip(inp, p1 + 2, radix), radix)
     ELSE IF ~is_digit(first.val)
       THEN Fail(IF has_sign THEN "IntNoDigits" ELSE "ExpectedInt", p1, p1)
     ELSE IF digits_end < Len(inp) /\ inp[digits_end + 1] = 46
       THEN parse_fraction(inp, position, digits_end)
     ELSE parse_digits(inp, position, digits_end, 10)

RECURSIVE human_deserialize_any(_, _)
RECURSIVE human_elements(_, _, _, _)
RECURSIVE human_entries(_, _, _, _, _)

(* visit_seq over the SequenceAccessor: next_element_seed called until it
   returns None; first is the accessor's flag, acc the elements so far. *)
human_elements(inp, position, first, acc) ==
  LET p1 == spaces(inp, position)
      p2 == spaces(inp, p1 + 1)
      r == human_deserialize_any(inp, IF starts_with(inp, p1, <<44>>) THEN p2 ELSE p1)
  IN IF starts_with(inp, p1, <<93>>) THEN Ok(acc, p1)
     ELSE IF starts_with(inp, p1, <<44>>)
       THEN IF starts_with(inp, p2, <<93>>)
              THEN IF first THEN Fail("EmptyCollectionComma", p2, p2) ELSE Ok(acc, p2)
            ELSE IF ~r.ok THEN r
            ELSE human_elements(inp, r.pos, first, Append(acc, r.val))
     ELSE IF ~first THEN Fail("ExpectedComma", p1, p1)
     ELSE IF ~r.ok THEN r
     ELSE human_elements(inp, r.pos, FALSE, Append(acc, r.val))

(* next_value_seed of the MapAccessor. *)
human_next_value(inp, position, set) ==
  LET colon == expect(inp, spaces(inp, position), 58, "ExpectedColon")
  IN IF set THEN AlwaysNil(position)
     ELSE IF ~colon.ok THEN colon
     ELSE human_deserialize_any(inp, spaces(inp, colon.pos))

(* visit_map over the MapAccessor: next_key_seed and next_value_seed called
   in turn until there is no further key. *)
human_entries(inp, position, set, first, acc) ==
  LET p1 == spaces(inp, position)
      p2 == spaces(inp, p1 + 1)
      comma == starts_with(inp, p1, <<44>>)
      k == human_deserialize_any(inp, IF comma THEN p2 ELSE p1)
      v == human_next_value(inp, k.pos, set)
  IN IF starts_with(inp, p1, <<125>>) THEN Ok(acc, p1)
     ELSE IF comma /\ starts_with(inp, p2, <<125>>)
       THEN IF first THEN Fail("EmptyCollectionComma", p2, p2) ELSE Ok(acc, p2)
     ELSE IF ~comma /\ ~first THEN Fail("ExpectedComma", p1, p1)
     ELSE IF ~k.ok THEN k
     ELSE IF ~v.ok THEN v
     ELSE human_entries(inp, v.pos, set, first /\ comma, Append(acc, <<k.val, v.val>>))

human_deserialize_bool(inp, position) == human_parse_bool(inp, spaces(inp, position))

(* deserialize_seq: the arms of a string or a byte string read as a sequence
   are left out, no Value is written as one. *)
human_deserialize_seq(inp, position) ==
  LET p1 == spaces(inp, position)
      head == peek(inp, p1)
      elements == human_elements(inp, p1 + 1, TRUE, <<>>)
      closing == expect(inp, spaces(inp, elements.pos), 93, "ArrayClosing")
  IN IF ~head.ok THEN head
     ELSE IF head.val \in {34, 64} THEN Fail("StringNotExplored", p1, p1)
     ELSE IF head.val # 91 THEN Fail("ExpectedArray", p1, p1)
     ELSE IF ~elements.ok THEN elements
     ELSE IF ~closing.ok THEN closing
     ELSE Ok(Array(elements.val), closing.pos)

human_deserialize_map(inp, position) ==
  LET p1 == spaces(inp, position)
      set == starts_with(inp, p1, <<64, 123>>)
      entries == human_entries(inp, IF set THEN p1 + 2 ELSE p1 + 1, set, TRUE, <<>>)
      closing == expect(inp, spaces(inp, entries.pos), 125, "MapClosing")
  IN IF ~set /\ ~starts_with(inp, p1, <<123>>) THEN Fail("ExpectedMap", p1, p1)
     ELSE IF ~entries.ok THEN entries
     ELSE IF ~closing.ok THEN closing
     ELSE Ok(Map(collect(<<>>, entries.val)), closing.pos)

(* Deserialize for Value over the human-readable encoding: deserialize_any
   with the ValueVisitor.  Strings and byte strings are not read. *)
human_deserialize_any(inp, position) ==
  LET p1 == spaces(inp, position)
      head == peek(inp, p1)
      second == peek(inp, p1 + 1)
  IN IF ~head.ok THEN head
     ELSE IF head.val = 110 THEN human_parse_nil(inp, p1)
     ELSE IF head.val \in {102, 116} THEN human_deserialize_bool(inp, p1)
     ELSE IF is_digit(head.val) \/ head.val \in {43, 45, 73, 78} THEN parse_number(inp, p1)
     ELSE IF head.val = 34 THEN Fail("StringNotExplored", p1, p1)
     ELSE IF head.val = 91 THEN human_deserialize_seq(inp, p1)
     ELSE IF head.val = 123 THEN human_deserialize_map(inp, p1)
     ELSE IF head.val = 64
       THEN IF ~second.ok THEN Fail("Eoi", p1, p1)
            ELSE IF second.val = 123 THEN human_deserialize_map(inp, p1)
            ELSE IF second.val \in {34, 64, 91, 98, 120} THEN Fail("StringNotExplored", p1, p1)
            ELSE Fail("Syntax", p1, p1)
     ELSE Fail("Syntax", p1, p1)

(***************************************************************************)
(* The human-readable round trip: a value is written by to_vec with an     *)
(* indentation and the text is decoded again by Value::deserialize.        *)
(***************************************************************************)

(* The widest indentation of the round trip target. *)
MaxIndentation == 4

HumanNested ==
  { Array(<<Int64(i64(1)), Int64(i64(2)), Int64(i64(3))>>),
    Array(<<Int64(i64(-10)), Float(NEG_ONE_HALF), Float(NEG_INFINITY)>>),
    Array(<<Array(<<Int64(i64(1)), Int64(i64(-2))>>), Array(<<>>), Array(<<Nil>>),
            Map(collect(<<>>, <<<<Int64(i64(1)), Float(NAN)>>,
                  <<Int64(i64(2)), Array(<<Bool(TRUE), Float(NEG_ZERO)>>)>>>>))>>),
    Array(<<Array(<<Array(<<Nil, Nil>>), Array(<<Bool(FALSE), Bool(TRUE)>>)>>),
            Array(<<Map(<<>>), Map(collect(<<>>, <<<<Nil, Nil>>>>))>>)>>),
    Array(<<Map(collect(<<>>, <<<<Int64(i64(0)), Int64(i64(1))>>, <<Int64(i64(1)), Int64(i64(0))>>>>)),
            Int64(I64_MAX)>>),
    Map(collect(<<>>, <<<<Array(<<Int64(i64(1)), Int64(i64(2))>>), Map(collect(<<>>, <<<<Nil, Nil>>>>))>>>>)),
    Map(collect(<<>>, <<<<Array(<<Int64(i64(1)), Int64(i64(2))>>),
            Map(collect(<<>>, <<<<Int64(i64(5)), Nil>>, <<Int64(i64(4)), Nil>>>>))>>,
          <<Array(<<>>), Array(<<Float(TWO_HALF), Float(POS_ZERO)>>)>>>>)),
    Map(collect(<<>>, <<<<Float(INFINITY), Int64(I64_MIN)>>, <<Bool(TRUE), Float(NAN)>>,
          <<Nil, Array(<<Nil>>)>>>>)) }

HumanValues == Values \cup HumanNested

InitHuman ==
  /\ a = Nil
  /\ b = Nil
  /\ c = Nil
  /\ op = "new"
  /\ res = "none"
  /\ NoCodec

(* One run of the round trip target on the value v and the indentation n,
   which the target has capped at 4. *)
HumanRoundtrip ==
  /\ op = "new"
  /\ \E v \in HumanValues, n \in 0..MaxIndentation :
      /\ a' = v
      /\ indentation' = n
      /\ out' = human_to_vec(v, n)
      /\ decoded' = human_deserialize_any(out', 0)
      /\ op' = "human_roundtrip"
      /\ UNCHANGED <<b, c, res, tv, input, p, serializer, collections>>

NextHuman == HumanRoundtrip

SpecHuman == InitHuman /\ [][NextHuman]_vars

(* C2: for every value v and every indentation n in 0..4, decoding the text
   that the human-readable encoder writes for v with indentation n succeeds
   and returns a value equal to v. *)
C2_Theorem == op = "human_roundtrip" => decoded.ok /\ eq(decoded.val, a)

(* A nested value with collections of several elements, written over
   several indented lines, has been decoded. *)
C2_Witness ==
  /\ op = "human_roundtrip"
  /\ indentation >= 1
  /\ tag(a) = TArray
  /\ Len(payload(a)) >= 2
  /\ \E i \in 1..Len(payload(a)) :
       tag(payload(a)[i]) = TMap /\ Len(payload(payload(a)[i])) >= 2
  /\ \E i \in 1..Len(out) : out[i] = 10
  /\ decoded.ok
  /\ tag(decoded.val) = TArray

(* The layouts that the text of a value is compared with. *)

RECURSIVE one_line(_, _)
RECURSIVE joined(_, _, _, _)

(* The texts of the elements (or of the entries, as key:value) from the
   i-th on, with sep between consecutive ones. *)
joined(v, i, sep, acc) ==
  LET x == payload(v)[i]
      text == IF tag(v) = TArray THEN one_line(x, sep)
              ELSE one_line(x[1], sep) \o <<58>> \o one_line(x[2], sep)
  IN IF i > Len(payload(v)) THEN acc
     ELSE joined(v, i + 1, sep, (IF i = 1 THEN acc ELSE acc \o sep) \o text)

(* The value on a single line: its elements between the brackets, sep between
   consecutive ones and nothing after the last. *)
one_line(v, sep) ==
  IF tag(v) = TArray THEN <<91>> \o joined(v, 1, sep, <<>>) \o <<93>>
  ELSE IF tag(v) = TMap THEN <<123>> \o joined(v, 1, sep, <<>>) \o <<125>>
  ELSE human_to_vec(v, 0)

is_collection(v) == tag(v) \in {TArray, TMap}

(* C17, as stated: with indentation 0 a collection of two or more elements is
   written on a single line, consecutive elements separated by a comma
   followed by one space and no comma after the last; [1, 2, 3] for the
   array of 1, 2 and 3. *)
C17_Original ==
  (op = "human_roundtrip" /\ indentation = 0 /\ is_collection(a) /\ Len(payload(a)) >= 2) =>
    out = one_line(a, <<44, 32>>)

(* C17, amended: with indentation 0 a collection of two or more elements is
   written on a single line without any white space, consecutive elements
   separated by a comma alone and no comma after the last; [1,2,3] for the
   array of 1, 2 and 3. *)
C17_Theorem ==
  (op = "human_roundtrip" /\ indentation = 0 /\ is_collection(a) /\ Len(payload(a)) >= 2) =>
    /\ out = one_line(a, <<44>>)
    /\ \A i \in 1..Len(out) : ~is_ws(out[i])

(* The array of 1, 2 and 3 has been written with indentation 0. *)
C17_Witness ==
  /\ op = "human_roundtrip"
  /\ indentation = 0
  /\ a = Array(<<Int64(i64(1)), Int64(i64(2)), Int64(i64(3))>>)
  /\ out = <<91, 49, 44, 50, 44, 51, 93>>

RECURSIVE lines(_, _, _, _)
RECURSIVE entry_lines(_, _, _, _, _, _)

blanks(k) == [i \in 1..k |-> 32]

(* The elements (or the entries, as key: value) of the collection v from the
   i-th on, each on a line of its own that starts with n * (d + 1) blanks and
   ends with a comma. *)
entry_lines(v, i, n, d, short, acc) ==
  LET x == payload(v)[i]
      text == IF tag(v) = TArray THEN lines(x, n, d + 1, short)
              ELSE lines(x[1], n, d + 1, short) \o <<58, 32>> \o lines(x[2], n, d + 1, short)
  IN IF i > Len(payload(v)) THEN acc
     ELSE entry_lines(v, i + 1, n, d, short,
                      acc \o blanks(n * (d + 1)) \o text \o <<44, 10>>)

(* The value v, opened at depth d, over several lines with the indent width
   n >= 1.  A collection of at most one element stays on the line and its
   element is short levels deeper than the collection itself. *)
lines(v, n, d, short) ==
  LET opening == IF tag(v) = TArray THEN <<91>> ELSE <<123>>
      closing == IF tag(v) = TArray THEN <<93>> ELSE <<125>>
      x == payload(v)[1]
  IN IF ~is_collection(v) THEN human_to_vec(v, n)
     ELSE IF Len(payload(v)) = 0 THEN opening \o closing
     ELSE IF Len(payload(v)) = 1
       THEN opening
              \o (IF tag(v) = TArray THEN lines(x, n, d + short, short)
                  ELSE lines(x[1], n, d + short, short) \o <<58, 32>>
                         \o lines(x[2], n, d + short, short))
              \o closing
     ELSE opening \o <<10>> \o entry_lines(v, 1, n, d, short, <<>>)
            \o blanks(n * d) \o closing

(* C18, as stated: with an indent width n >= 1 a collection of two or more
   elements opened at nesting depth d, the number of collections around it,
   is written as the opening bracket, a newline, every element on a line of
   its own after n * (d + 1) blanks and before a comma and a newline, and
   the closing bracket after n * d blanks. *)
C18_Original ==
  (op = "human_roundtrip" /\ indentation >= 1) => out = lines(a, indentation, 0, 1)

(* C18, amended: the same layout, where the depth d of a collection counts
   only the collections of two or more elements around it; a collection of
   at most one element stays on the line of its bracket and does not indent
   what is inside it. *)
C18_Theorem ==
  (op = "human_roundtrip" /\ indentation >= 1) => out = lines(a, indentation, 0, 0)

(* An array of two elements that is the key of the only entry of a map has
   been written with the indent width 2: its elements are indented by one
   level, the map around it does not count. *)
C18_Witness ==
  /\ op = "human_roundtrip"
  /\ indentation = 2
  /\ tag(a) = TMap
  /\ Len(payload(a)) = 1
  /\ payload(a)[1][1] = Array(<<Int64(i64(1)), Int64(i64(2))>>)
  /\ out = <<123, 91, 10, 32, 32, 49, 44, 10, 32, 32, 50, 44, 10, 93, 58, 32,
             123, 110, 105, 108, 58, 32, 110, 105, 108, 125, 125>>

(***************************************************************************)
(* The human-readable decoder on arbitrary text.                           *)
(***************************************************************************)

MaxText == 5

(* [ ] { } @ : , 1 and the space. *)
TextBytes == {91, 93, 123, 125, 64, 58, 44, 49, 32}

(* Literals with a comma before the first entry, longer than MaxText. *)
LongTexts ==
  { <<91, 44, 49, 32, 49, 93>>,
    <<123, 44, 49, 58, 49, 125>>,
    <<123, 44, 49, 58, 49, 32, 49, 58, 49, 125>>,
    <<64, 123, 44, 49, 32, 91, 93, 125>>,
    <<91, 49, 44, 49, 44, 93>>,
    <<123, 49, 58, 49, 32, 49, 58, 49, 125>>,
    <<123, 49, 58, 49, 44, 91, 93, 58, 49, 44, 125>> }

HumanTexts == SeqsUpTo(TextBytes, MaxText) \cup LongTexts

InitHumanAny ==
  /\ a = Nil
  /\ b = Nil
  /\ c = Nil
  /\ op = "new"
  /\ res = "none"
  /\ NoCodec

(* One run of the target on the text inp. *)
HumanDeserializeAny ==
  /\ op = "new"
  /\ \E inp \in HumanTexts :
      /\ input' = inp
      /\ decoded' = human_deserialize_any(inp, 0)
      /\ op' = "human_deserialize_any"
      /\ UNCHANGED <<a, b, c, res, tv, indentation, out, p, serializer, collections>>

NextHumanAny == HumanDeserializeAny

SpecHumanAny == InitHumanAny /\ [][NextHumanAny]_vars

(* Only spaces lie between the positions i and j of the text t. *)
OnlySpaces(t, i, j) == i < j /\ \A k \in (i + 1)..(j - 1) : t[k] = 32

(* A comma is the first thing inside a collection. *)
LeadingComma(t) ==
  \E i, j \in 1..Len(t) : t[i] \in {91, 123} /\ t[j] = 44 /\ OnlySpaces(t, i, j)

(* Two commas with no entry between them. *)
DoubleComma(t) ==
  \E i, j \in 1..Len(t) : t[i] = 44 /\ t[j] = 44 /\ OnlySpaces(t, i, j)

(* The end of one entry is followed by the start of the next with no comma
   between them; two adjacent digits are one number. *)
MissingComma(t) ==
  \E i, j \in 1..Len(t) :
    /\ t[i] \in {49, 93, 125}
    /\ t[j] \in {49, 91, 123, 64}
    /\ OnlySpaces(t, i, j)
    /\ ~(t[i] = 49 /\ t[j] = 49 /\ j = i + 1)

(* The text t is opening bracket, spaces, comma, spaces, closing bracket. *)
OnlyComma(t) ==
  \E o \in {<<91>>, <<123>>, <<64, 123>>} :
    \E i \in 1..Len(t) :
      /\ starts_with(t, 0, o)
      /\ t[i] = 44
      /\ OnlySpaces(t, Len(o), i)
      /\ OnlySpaces(t, i, Len(t))
      /\ i < Len(t)
      /\ t[Len(t)] = (IF o = <<91>> THEN 93 ELSE 125)

(* The text t starts with a collection whose first entry is followed by a
   space and then by the start of a second entry. *)
SecondWithoutComma(t) ==
  \/ /\ starts_with(t, 0, <<91, 49, 32>>) \/ starts_with(t, 0, <<64, 123, 49, 32>>)
     /\ \E j \in 1..Len(t) :
          t[j] \in {49, 91, 123, 64} /\ OnlySpaces(t, IF t[1] = 91 THEN 2 ELSE 3, j)
  \/ /\ starts_with(t, 0, <<123, 49, 58, 49, 32>>)
     /\ \E j \in 1..Len(t) : t[j] \in {49, 91, 123, 64} /\ OnlySpaces(t, 4, j)

(* C16: the human-readable decoder accepts an array, map or set literal only
   when consecutive entries are separated by exactly one comma, no comma
   precedes the first entry and at most one trailing comma follows the last
   entry; a comma inside an otherwise empty collection fails with
   EmptyCollectionComma and a missing comma between two entries fails with
   ExpectedComma. *)
C16_Claim ==
  op = "human_deserialize_any" =>
    /\ decoded.ok =>
         LET t == SubSeq(input, 1, decoded.pos)
         IN ~LeadingComma(t) /\ ~DoubleComma(t) /\ ~MissingComma(t)
    /\ OnlyComma(input) => ~decoded.ok /\ decoded.err = "EmptyCollectionComma"
    /\ SecondWithoutComma(input) => ~decoded.ok /\ decoded.err = "ExpectedComma"

(***************************************************************************)
(* Strings in the human-readable encoding.  A string is the sequence of    *)
(* its chars, each char the number of its Unicode scalar value.            *)
(***************************************************************************)

(* char::to_string().as_bytes(): the UTF-8 encoding of the char. *)
to_utf8(ch) ==
  IF ch < 128 THEN <<ch>>
  ELSE IF ch < 2048 THEN <<192 + (ch \div 64), 128 + (ch % 64)>>
  ELSE IF ch < 65536
    THEN <<224 + (ch \div 4096), 128 + ((ch \div 64) % 64), 128 + (ch % 64)>>
  ELSE <<240 + (ch \div 262144), 128 + ((ch \div 4096) % 64),
         128 + ((ch \div 64) % 64), 128 + (ch % 64)>>

(* What serialize_str writes for one char. *)
serialize_char_of_str(ch) ==
  LET nibble == ch % 16
  IN IF ch = 0 THEN <<92, 48>>
     ELSE IF ch = 10 THEN <<10>>
     ELSE IF ch = 9 THEN <<9>>
     ELSE IF ch = 13 THEN <<13>>
     ELSE IF ch <= 31
       THEN <<92, 123>> \o (IF ch <= 15 THEN <<48>> ELSE <<49>>)
              \o (IF nibble <= 9 THEN <<nibble + 48>> ELSE <<nibble + 55>>)
              \o <<125>>
     ELSE IF ch = 127 THEN <<92, 123, 55, 102, 125>>
     ELSE IF ch = 92 THEN <<92, 92>>
     ELSE IF ch = 34 THEN <<92, 34>>
     ELSE to_utf8(ch)

RECURSIVE serialize_chars(_, _, _)
serialize_chars(s, v, i) ==
  IF i > Len(v) THEN s
  ELSE serialize_chars(push(s, serialize_char_of_str(v[i])), v, i + 1)

human_serialize_str(s, v) == push(serialize_chars(push(s, <<34>>), v, 1), <<34>>)

MaxChars == 2

(* NUL, the controls with an escape of their own, other controls on both
   sides of 0x0F, DEL, the backslash, the quote, a space, a letter and chars
   of two, three and four bytes. *)
Chars == {0, 9, 10, 13, 1, 11, 15, 16, 31, 127, 92, 34, 32, 65, 233, 8364, 128512}

Strs == SeqsUpTo(Chars, MaxChars)

InitStr ==
  /\ a = Nil
  /\ b = Nil
  /\ c = Nil
  /\ op = "new"
  /\ res = "none"
  /\ NoCodec

(* to_vec of the string v. *)
SerializeStr ==
  /\ op = "new"
  /\ \E v \in Strs, n \in 0..MaxIndentation :
      /\ tv' = v
      /\ indentation' = n
      /\ out' = human_serialize_str(VVSerializer_new, v).out
      /\ op' = "serialize_str"
      /\ UNCHANGED <<a, b, c, res, input, decoded, p, serializer, collections>>

NextStr == SerializeStr

SpecStr == InitStr /\ [][NextStr]_vars

hex_digit(k) == IF k <= 9 THEN k + 48 ELSE k + 55

(* The text asked for one char of a string. *)
escaped(ch) ==
  IF ch = 0 THEN <<92, 48>>
  ELSE IF ch = 10 THEN <<92, 110>>
  ELSE IF ch = 13 THEN <<92, 114>>
  ELSE IF ch = 9 THEN <<92, 116>>
  ELSE IF ch <= 31 \/ ch = 127
    THEN <<92, 123, hex_digit(ch \div 16), hex_digit(ch % 16), 125>>
  ELSE IF ch = 92 THEN <<92, 92>>
  ELSE IF ch = 34 THEN <<92, 34>>
  ELSE to_utf8(ch)

RECURSIVE escaped_all(_, _)
escaped_all(v, i) == IF i > Len(v) THEN <<>> ELSE escaped(v[i]) \o escaped_all(v, i + 1)

(* C19: serialize_str of the human-readable encoder never writes a raw byte
   in 0x00-0x1F or 0x7F inside a string literal: NUL is written as \0, LF as
   \n, CR as \r, TAB as \t, every other control below 0x20 as \{HH} with two
   hex digits, 0x7F as \{7F}, a backslash as \\ and a double quote as \". *)
C19_Claim ==
  op = "serialize_str" =>
    /\ \A i \in 1..Len(out) : out[i] > 31 /\ out[i] # 127
    /\ out = <<34>> \o escaped_all(tv, 1) \o <<34>>

(***************************************************************************)
(* Sets read through the map interface: BTreeMap::<Value, V>::deserialize  *)
(* over the bytes or the text of a set, for a value type V that is Value,  *)
(* the unit type or bool.                                                  *)
(***************************************************************************)

(* seed.deserialize(AlwaysNil::new()): whether the caller's value type is
   built from nil. *)
from_nil(seed) == seed \in {"Value", "unit"}

(* V::deserialize over the compact deserializer. *)
seed_deserialize(inp, position, seed) ==
  IF seed = "Value" THEN deserialize_any(inp, position)
  ELSE IF seed = "unit" THEN parse_nil(inp, position)
  ELSE parse_bool(inp, position)

(* A next_value_seed that reads the value of a key of a set from the input. *)
next_value_seed_read(inp, position, set, seed) ==
  seed_deserialize(inp, position, seed)

next_value_seed(inp, position, set, seed) ==
  IF set
    THEN IF from_nil(seed) THEN AlwaysNil(position)
         ELSE Fail("InvalidSet", position, position)
  ELSE seed_deserialize(inp, position, seed)

(* The entries the MapAccessor hands out, in the order of the calls:
   next_key_seed while read < len, next_value_seed after every key. *)
RECURSIVE map_access(_, _, _, _, _, _)

next_entry_value(inp, k, v, len, set, seed, acc) ==
  IF ~v.ok THEN v
  ELSE map_access(inp, v.pos, len - 1, set, seed, Append(acc, <<k.val, v.val>>))

next_entry(inp, k, len, set, seed, acc) ==
  IF ~k.ok THEN k
  ELSE next_entry_value(inp, k, next_value_seed(inp, k.pos, set, seed), len, set,
                        seed, acc)

map_access(inp, position, len, set, seed, acc) ==
  IF len = 0 THEN Ok(acc, position)
  ELSE next_entry(inp, deserialize_any(inp, position), len, set, seed, acc)

(* deserialize_map with the visitor of a map from Value to V. *)
deserialize_map_of(inp, position, seed) ==
  LET head == peek(inp, position)
      set == head.val \div 32 = 6
      count == IF set
                 THEN parse_count(inp, position, 192, "ExpectedMap", "OutOfBoundsSet")
                 ELSE parse_count(inp, position, 224, "ExpectedMap", "OutOfBoundsMap")
  IN IF ~head.ok THEN head
     ELSE IF head.val \div 32 < 6 THEN Fail("ExpectedMap", position, position)
     ELSE IF ~count.ok THEN count
     ELSE map_access(inp, count.pos, count.val, set, seed, <<>>)

(* V::deserialize over the human-readable deserializer. *)
human_seed_deserialize(inp, position, seed) ==
  IF seed = "Value" THEN human_deserialize_any(inp, position)
  ELSE IF seed = "unit" THEN human_parse_nil(inp, spaces(inp, position))
  ELSE human_deserialize_bool(inp, position)

human_next_value_seed(inp, position, set, seed) ==
  LET colon == expect(inp, spaces(inp, position), 58, "ExpectedColon")
  IN IF set
       THEN IF from_nil(seed) THEN AlwaysNil(position)
            ELSE Fail("InvalidSet", position, position)
     ELSE IF ~colon.ok THEN colon
     ELSE human_seed_deserialize(inp, spaces(inp, colon.pos), seed)

RECURSIVE human_map_access(_, _, _, _, _, _)

human_next_entry_value(inp, k, v, set, seed, first, acc) ==
  IF ~v.ok THEN v
  ELSE human_map_access(inp, v.pos, set, seed, first, Append(acc, <<k.val, v.val>>))

human_next_entry(inp, k, set, seed, first, acc) ==
  IF ~k.ok THEN k
  ELSE human_next_entry_value(inp, k, human_next_value_seed(inp, k.pos, set, seed),
                              set, seed, first, acc)

(* next_key_seed at p1, the position after the spaces, p2 the one after a
   comma and its spaces. *)
human_next_key(inp, p1, p2, set, seed, first, acc) ==
  IF starts_with(inp, p1, <<125>>) THEN Ok(acc, p1)
  ELSE IF starts_with(inp, p1, <<44>>)
    THEN IF starts_with(inp, p2, <<125>>)
           THEN IF first THEN Fail("EmptyCollectionComma", p2, p2) ELSE Ok(acc, p2)
         ELSE human_next_entry(inp, human_deserialize_any(inp, p2), set, seed, first, acc)
  ELSE IF ~first THEN Fail("ExpectedComma", p1, p1)
  ELSE human_next_entry(inp, human_deserialize_any(inp, p1), set, seed, FALSE, acc)

human_map_access(inp, position, set, seed, first, acc) ==
  human_next_key(inp, spaces(inp, position), spaces(inp, spaces(inp, position) + 1),
                 set, seed, first, acc)

human_map_closing(inp, entries) ==
  IF ~entries.ok THEN entries
  ELSE IF ~expect(inp, spaces(inp, entries.pos), 125, "MapClosing").ok
    THEN expect(inp, spaces(inp, entries.pos), 125, "MapClosing")
  ELSE Ok(entries.val, spaces(inp, entries.pos) + 1)

human_deserialize_map_of(inp, position, seed) ==
  IF starts_with(inp, spaces(inp, position), <<64, 123>>)
    THEN human_map_closing(inp, human_map_access(inp, spaces(inp, position) + 2,
                                                 TRUE, seed, TRUE, <<>>))
  ELSE IF starts_with(inp, spaces(inp, position), <<123>>)
    THEN human_map_closing(inp, human_map_access(inp, spaces(inp, position) + 1,
                                                 FALSE, seed, TRUE, <<>>))
  ELSE Fail("ExpectedMap", spaces(inp, position), spaces(inp, position))

MaxKeys == 3

(* nil, true, the int 1, the empty array and a set of one key. *)
CompactKeys == {<<0>>, <<33>>, <<97>>, <<160>>, <<193, 0>>}
HumanKeys == {<<110, 105, 108>>, <<116, 114, 117, 101>>, <<49>>, <<91, 93>>,
              <<64, 123, 49, 125>>}

Seeds == {"Value", "unit", "bool"}

(* What follows the last key: nothing, or a byte that reads as nil. *)
CompactRests == {<<>>, <<0>>}

(* The separators between the keys of a set in text. *)
Separators == {<<44>>, <<44, 32>>}

RECURSIVE join(_, _, _)
join(texts, sep, i) ==
  IF i > Len(texts) THEN <<>>
  ELSE IF i = Len(texts) THEN texts[i]
  ELSE texts[i] \o sep \o join(texts, sep, i + 1)

InitSet ==
  /\ a = Nil
  /\ b = Nil
  /\ c = Nil
  /\ op = "new"
  /\ res = "none"
  /\ NoCodec

(* from_slice of a set or a map of the keys ks, the map with the keys as
   values; tv keeps the encodings of the keys, res the value type. *)
CompactMapOfSet ==
  /\ op = "new"
  /\ \E ks \in SeqsUpTo(CompactKeys, MaxKeys), rest \in CompactRests,
        seed \in Seeds, set \in BOOLEAN :
      /\ tv' = ks
      /\ res' = seed
      /\ input' = (IF set THEN <<192 + Len(ks)>> \o concat(ks)
                   ELSE <<224 + Len(ks)>> \o concat([i \in 1..Len(ks) |-> ks[i] \o ks[i]]))
                    \o rest
      /\ decoded' = deserialize_map_of(input', 0, seed)
      /\ op' = "compact_map_of_set"
      /\ UNCHANGED <<a, b, c, indentation, out, p, serializer, collections>>

HumanMapOfSet ==
  /\ op = "new"
  /\ \E ks \in SeqsUpTo(HumanKeys, MaxKeys), sep \in Separators, seed \in Seeds :
      /\ tv' = ks
      /\ res' = seed
      /\ input' = <<64, 123>> \o join(ks, sep, 1) \o <<125>>
      /\ decoded' = human_deserialize_map_of(input', 0, seed)
      /\ op' = "human_map_of_set"
      /\ UNCHANGED <<a, b, c, indentation, out, p, serializer, collections>>

NextSet == CompactMapOfSet \/ HumanMapOfSet

SpecSet == InitSet /\ [][NextSet]_vars

(* The keys of tv read one by one, each paired with nil. *)
with_nil(human) ==
  [i \in 1..Len(tv) |->
     <<IF human THEN human_deserialize_any(tv[i], 0).val
       ELSE deserialize_any(tv[i], 0).val, Nil>>]

(* C21: a set of n keys read through the map interface yields its n keys in
   input order, each with a nil value for which no input is consumed, and
   then the end of the map; a value type that is not built from nil fails
   with InvalidSet at the end of the first key. *)
C21_Theorem ==
  /\ (op = "compact_map_of_set" /\ input[1] \div 32 = 6) =>
       IF from_nil(res) \/ tv = <<>>
         THEN /\ decoded.ok
              /\ decoded.val = with_nil(FALSE)
              /\ decoded.pos = 1 + Len(concat(tv))
       ELSE /\ ~decoded.ok
            /\ decoded.err = "InvalidSet"
            /\ decoded.at = 1 + Len(tv[1])
  /\ op = "human_map_of_set" =>
       IF from_nil(res) \/ tv = <<>>
         THEN /\ decoded.ok
              /\ decoded.val = with_nil(TRUE)
              /\ decoded.pos = Len(input)
       ELSE /\ ~decoded.ok
            /\ decoded.err = "InvalidSet"
            /\ decoded.at = 2 + Len(tv[1])

(* A set of three keys followed by a nil byte, read as a map to unit. *)
C21_Witness ==
  /\ op = "compact_map_of_set"
  /\ input = <<195, 33, 97, 0, 0>>
  /\ res = "unit"
  /\ decoded.ok
  /\ decoded.val = <<<<Bool(TRUE), Nil>>, <<Int64(i64(1)), Nil>>, <<Nil, Nil>>>>
  /\ decoded.pos = 4

(***************************************************************************)
(* The ParserHelper as an object: calls of its methods in any order on an  *)
(* input, p.position the cursor between the calls.                         *)
(***************************************************************************)

ParserHelper_new(inp) == [input |-> inp, position |-> 0]

next_or_end(inp, position) ==
  IF position < Len(inp) THEN Ok(Some(inp[position + 1]), position + 1)
  ELSE Ok(None, position)

(* The predicates handed to expect_pred, by name. *)
pred_holds(pred, byte) == IF pred = "is_ws" THEN is_ws(byte) ELSE is_digit(byte)

expect_pred(inp, position, pred, e) ==
  IF ~next(inp, position).ok THEN next(inp, position)
  ELSE IF pred_holds(pred, next(inp, position).val) THEN Ok(<<>>, position + 1)
  ELSE Fail(e, position, position + 1)

advance_over(inp, position, expected) ==
  IF starts_with(inp, position, expected) THEN Ok(TRUE, position + Len(expected))
  ELSE Ok(FALSE, position)

(* rest() is slice(position..): it panics when the position is beyond the
   end of the input. *)
rest_panics(q) == q.position > Len(q.input)

MaxParserInput == 3
MaxOffset == 2

(* a digit, a space and a letter *)
ParserBytes == {48, 32, 120}

ParserInputs == SeqsUpTo(ParserBytes, MaxParserInput)

Expected == {<<48>>, <<48, 32>>, <<>>}

InitParser ==
  /\ a = Nil
  /\ b = Nil
  /\ c = Nil
  /\ op = "new"
  /\ res = "none"
  /\ tv = <<>>
  /\ indentation = 0
  /\ out = <<>>
  /\ input = <<>>
  /\ decoded = <<>>
  /\ p \in {ParserHelper_new(inp) : inp \in ParserInputs}
  /\ serializer = <<>>
  /\ collections = <<>>

(* A call that returns r: the cursor is where the call left it. *)
Called(name, r) ==
  /\ op # "panicked"
  /\ op' = name
  /\ decoded' = r
  /\ p' = [p EXCEPT !.position = r.pos]
  /\ UNCHANGED <<a, b, c, res, tv, indentation, out, input, serializer, collections>>

(* A call of rest() with the cursor beyond the end of the input. *)
Panicked ==
  /\ op # "panicked"
  /\ op' = "panicked"
  /\ UNCHANGED <<a, b, c, res, tv, indentation, out, input, decoded, p, serializer, collections>>

ParserPeek == Called("peek", peek(p.input, p.position))

ParserNext == Called("next", next(p.input, p.position))

ParserNextOrEnd == Called("next_or_end", next_or_end(p.input, p.position))

ParserExpect ==
  \E expected \in ParserBytes :
    Called("expect", expect(p.input, p.position, expected, "Other"))

ParserExpectPred ==
  \E pred \in {"is_ws", "is_digit"} :
    Called("expect_pred", expect_pred(p.input, p.position, pred, "Other"))

ParserExpectBytes ==
  \E exp \in Expected :
    IF rest_panics(p) THEN Panicked
    ELSE Called("expect_bytes", expect_bytes(p.input, p.position, exp, "Other"))

ParserAdvanceOver ==
  \E expected \in Expected :
    IF rest_panics(p) THEN Panicked
    ELSE Called("advance_over", advance_over(p.input, p.position, expected))

ParserAdvanceOr ==
  \E offset \in 0..MaxOffset :
    /\ p.position + offset <= Len(p.input) + MaxOffset
    /\ Called("advance_or", advance_or(p.input, p.position, offset, "Other"))

ParserSkip ==
  \E radix \in {2, 10, 16} :
    Called("skip", Ok(<<>>, skip(p.input, p.position, radix)))

NextParser ==
  \/ ParserPeek
  \/ ParserNext
  \/ ParserNextOrEnd
  \/ ParserExpect
  \/ ParserExpectPred
  \/ ParserExpectBytes
  \/ ParserAdvanceOver
  \/ ParserAdvanceOr
  \/ ParserSkip

SpecParser == InitParser /\ [][NextParser]_vars

(* C22: with the cursor at the end of the input, peek and next both fail
   with UnexpectedEndOfInput at the position of the cursor, and neither
   moves the cursor. *)
C22_Theorem ==
  [][(op' \in {"peek", "next"} /\ p.position = Len(p.input)) =>
       /\ ~decoded'.ok
       /\ decoded'.err = "Eoi"
       /\ decoded'.at = p.position
       /\ p'.position = p.position]_vars

(* next has failed at the end of an input of three bytes that earlier calls
   consumed. *)
C22_Witness ==
  /\ op = "next"
  /\ ~decoded.ok
  /\ decoded.err = "Eoi"
  /\ decoded.at = 3
  /\ p = [input |-> <<48, 32, 120>>, position |-> 3]

(* C30: after any sequence of peek, next, next_or_end, expect, expect_pred,
   expect_bytes, advance_over, advance_or and skip calls the position is at
   most the length of the input, so rest() and slice(position..) never index
   out of range. *)
C30_Claim ==
  /\ p.position <= Len(p.input)
  /\ op # "panicked"

(***************************************************************************)
(* The count of a byte string or a collection: written by serialize_count  *)
(* and read again by parse_count.                                          *)
(***************************************************************************)

(* The tags of byte strings, arrays, sets and maps. *)
CountTags == {128, 160, 192, 224}

MaxInline == 40

(* Every count up to MaxInline and the counts at the edges of every width,
   up to the largest length held here. *)
Counts == 0..MaxInline \cup {255, 256, 65535, BigCount, 16777216, 2147483647}

InitCount ==
  /\ a = Nil
  /\ b = Nil
  /\ c = Nil
  /\ op = "new"
  /\ res = "none"
  /\ NoCodec

(* serialize_count(n, tag) on an empty buffer, then parse_count of the
   bytes written; tv keeps the count and the tag. *)
SerializeCount ==
  /\ op = "new"
  /\ \E n \in Counts, t \in CountTags :
      /\ tv' = <<n, t>>
      /\ out' = serialize_count(n, t)
      /\ input' = out'
      /\ decoded' = parse_count(out', 0, t, "ExpectedCount", "OutOfBoundsCount")
      /\ op' = "serialize_count"
      /\ UNCHANGED <<a, b, c, res, indentation, p, serializer, collections>>

NextCount == SerializeCount

SpecCount == InitCount /\ [][NextCount]_vars

(* C23: serialize_count writes a count n inline in the five argument bits
   when n <= 27, and otherwise the argument 28, 29, 30 or 31 followed by 1,
   2, 4 or 8 big-endian bytes holding n, the smallest width that fits;
   parse_count of those bytes returns n and consumes exactly the bytes
   written. *)
C23_Claim ==
  op = "serialize_count" =>
    /\ out = encode_count(tv[1], 0, tv[2])
    /\ decoded = Ok(tv[1], Len(out))

(***************************************************************************)
(* Typed reads of the compact deserializer on arbitrary bytes: the read of *)
(* one value of a requested kind from the start of the input.              *)
(***************************************************************************)

NameNone == <<78, 111, 110, 101>>
NameSome == <<83, 111, 109, 101>>

(* visit_some with the value read. *)
some_value(r) == IF ~r.ok THEN r ELSE Ok(Some(r.val), r.pos)

(* The end of deserialize_option once the name has been read: none is TRUE
   in the arm of a string, set in the arm of a set. *)
option_named(inp, position, name, none, set) ==
  IF ~name.ok THEN name
  ELSE IF none
    THEN IF name.val = NameNone THEN Ok(None, name.pos)
         ELSE Fail("ExpectedOption", position, name.pos)
  ELSE IF name.val # NameSome THEN Fail("ExpectedOption", position, name.pos)
  ELSE IF set THEN Ok(Some(AlwaysNil(name.pos).val), name.pos)
  ELSE some_value(deserialize_any(inp, name.pos))

(* deserialize_option with the visitor of Option<Value>: the name is read
   at the position itself in the arm of a string, and after the header of
   one entry in the arms of a set and of a map. *)
deserialize_option(inp, position) ==
  IF ~peek(inp, position).ok THEN peek(inp, position)
  ELSE IF peek(inp, position).val \div 32 \notin {4, 5, 6, 7}
    THEN Fail("ExpectedOption", position, position)
  ELSE IF peek(inp, position).val \div 32 \in {6, 7} /\ peek(inp, position).val \notin {193, 225}
    THEN Fail("ExpectedOption", position, position + 1)
  ELSE option_named(inp, position,
                    deserialize_string(inp, IF peek(inp, position).val \div 32 \in {4, 5}
                                              THEN position ELSE position + 1),
                    peek(inp, position).val \div 32 \in {4, 5},
                    peek(inp, position).val \div 32 = 6)

(* deserialize_seq with the visitor of a Vec<Value>: a byte string is read
   as the sequence of its bytes, and an array by parse_count and a
   SequenceAccessor, which is the arm of deserialize_any for an array. *)
deserialize_seq_of(inp, position) ==
  IF ~peek(inp, position).ok THEN peek(inp, position)
  ELSE IF peek(inp, position).val \div 32 \in {4, 5} THEN deserialize_any(inp, position)
  ELSE Fail("ExpectedArray", position, position)

Kinds == {"nil", "bool", "float", "int", "bytes", "option", "seq", "map", "enum"}

(* T::deserialize for a value of the kind asked for. *)
typed_read(wanted, inp, position) ==
  IF wanted = "nil" THEN parse_nil(inp, position)
  ELSE IF wanted = "bool" THEN parse_bool(inp, position)
  ELSE IF wanted = "float" THEN parse_float(inp, position)
  ELSE IF wanted = "int" THEN parse_int(inp, position)
  ELSE IF wanted = "bytes" THEN deserialize_bytes(inp, position)
  ELSE IF wanted = "option" THEN deserialize_option(inp, position)
  ELSE IF wanted = "seq" THEN deserialize_seq_of(inp, position)
  ELSE IF wanted = "map" THEN deserialize_map_of(inp, position, "Value")
  ELSE deserialize_enum(inp, position)

MaxKind == 3

(* One byte of every major type, well formed and not: nil and a nil tag
   with an argument, true and a bool tag with argument 2, the float tag with
   an argument, the int 1, a byte string, an array, a set and a map of one
   entry, and a set of two. *)
KindBytes == {0, 1, 33, 34, 65, 97, 129, 161, 193, 225, 194}

(* The names of the two cases of an option as strings, and a third name. *)
OptionNames == {<<132>> \o NameNone, <<132>> \o NameSome, <<132, 83, 97, 109, 101>>}

KindInputs ==
  SeqsUpTo(KindBytes, MaxKind)
    \cup {head \o name \o rest : head \in {<<>>, <<193>>, <<225>>, <<194>>},
                                name \in OptionNames, rest \in {<<>>, <<1>>, <<97>>}}

InitKind ==
  /\ a = Nil
  /\ b = Nil
  /\ c = Nil
  /\ op = "new"
  /\ res = "none"
  /\ NoCodec

(* from_slice::<T> of the bytes inp for a T of the kind asked for; tv keeps
   the kind. *)
TypedRead ==
  /\ op = "new"
  /\ \E inp \in KindInputs, wanted \in Kinds :
      /\ tv' = wanted
      /\ input' = inp
      /\ decoded' = typed_read(wanted, inp, 0)
      /\ op' = "typed_read"
      /\ UNCHANGED <<a, b, c, res, indentation, out, p, serializer, collections>>

NextKind == TypedRead

SpecKind == InitKind /\ [][NextKind]_vars

(* The errors of a value of another kind than the one asked for. *)
KindErrors ==
  {"ExpectedNil", "ExpectedBool", "ExpectedFloat", "ExpectedInt", "ExpectedBytes",
   "ExpectedOption", "ExpectedArray", "ExpectedMap", "ExpectedEnum",
   "ExpectedEnumVariant"}

(* Whether the byte is not the tag of a value of the kind of the error. *)
mismatch(byte, e) ==
  IF e = "ExpectedNil" THEN byte # 0
  ELSE IF e = "ExpectedBool" THEN byte \notin {32, 33}
  ELSE IF e = "ExpectedFloat" THEN byte # 64
  ELSE IF e = "ExpectedInt" THEN byte \div 32 # 3
  ELSE IF e = "ExpectedBytes" THEN byte \div 32 # 4
  ELSE IF e = "ExpectedArray" THEN byte \div 32 # 5
  ELSE IF e = "ExpectedMap" THEN byte \div 32 \notin {6, 7}
  ELSE IF e = "ExpectedEnum" THEN byte \div 32 \notin {4, 5, 6, 7}
  ELSE IF e = "ExpectedEnumVariant" THEN byte \div 32 \notin {4, 5} /\ byte \notin {193, 225}
  ELSE TRUE

(* The kinds whose read looks at one tag byte only before it fails. *)
FlatKinds == {"nil", "bool", "float", "int", "bytes"}

(* C26: every error of the Expected family of the compact decoder carries
   the offset of the tag byte that is not of the kind asked for, never an
   offset after that byte, whichever typed read raised it. *)
C26_Theorem ==
  (op = "typed_read" /\ ~decoded.ok /\ decoded.err \in KindErrors) =>
    /\ decoded.at < Len(input)
    /\ decoded.at <= decoded.pos
    /\ mismatch(input[decoded.at + 1], decoded.err)
    /\ tv \in FlatKinds => decoded.at = 0
    /\ decoded.err \in {"ExpectedOption", "ExpectedEnum"} => decoded.at = 0
    /\ (tv \in {"option", "enum"} /\ decoded.err = "ExpectedBytes") => decoded.at = 1

(* A bool is asked for where an int is: the error is at offset 0, the read
   has moved on to offset 1. *)
C26_Witness ==
  /\ op = "typed_read"
  /\ tv = "bool"
  /\ input = <<97, 33>>
  /\ decoded.err = "ExpectedBool"
  /\ decoded.at = 0
  /\ decoded.pos = 1

(***************************************************************************)
(* The deserializer of src/de.rs, which takes the encoding to accept as an *)
(* argument: Canonic, Compact, HumanReadable or Hybrid.                    *)
(***************************************************************************)

is_continuation(byte) == byte >= 128 /\ byte <= 191

(* std::str::from_utf8(bytes).is_ok(), from the byte at index i on. *)
RECURSIVE from_utf8_ok(_, _)
from_utf8_ok(bytes, i) ==
  IF i > Len(bytes) THEN TRUE
  ELSE IF bytes[i] < 128 THEN from_utf8_ok(bytes, i + 1)
  ELSE IF bytes[i] >= 194 /\ bytes[i] <= 223
    THEN /\ i + 1 <= Len(bytes)
         /\ is_continuation(bytes[i + 1])
         /\ from_utf8_ok(bytes, i + 2)
  ELSE IF bytes[i] >= 224 /\ bytes[i] <= 239
    THEN /\ i + 2 <= Len(bytes)
         /\ is_continuation(bytes[i + 1])
         /\ is_continuation(bytes[i + 2])
         /\ bytes[i] = 224 => bytes[i + 1] >= 160
         /\ bytes[i] = 237 => bytes[i + 1] <= 159
         /\ from_utf8_ok(bytes, i + 3)
  ELSE IF bytes[i] >= 240 /\ bytes[i] <= 244
    THEN /\ i + 3 <= Len(bytes)
         /\ is_continuation(bytes[i + 1])
         /\ is_continuation(bytes[i + 2])
         /\ is_continuation(bytes[i + 3])
         /\ bytes[i] = 240 => bytes[i + 1] >= 144
         /\ bytes[i] = 244 => bytes[i + 1] <= 143
         /\ from_utf8_ok(bytes, i + 4)
  ELSE FALSE

(* The position after the next LF, or the end of the input. *)
RECURSIVE line_end(_, _)
line_end(inp, position) ==
  IF position >= Len(inp) THEN position
  ELSE IF inp[position + 1] = 10 THEN position + 1
  ELSE line_end(inp, position + 1)

(* A comment whose bytes up to the end of its line are checked. *)
de_comment_line(inp, start) ==
  IF from_utf8_ok(slice(inp, start, line_end(inp, start + 1)), 1)
    THEN Ok(<<>>, line_end(inp, start + 1))
  ELSE Fail("CommentNotUtf8", start, line_end(inp, start + 1))

(* comment: called at a '#'; the bytes checked are slice(start..), the
   input from the start of the comment to its end. *)
de_comment(inp, start) ==
  IF from_utf8_ok(slice(inp, start, Len(inp)), 1)
    THEN Ok(<<>>, line_end(inp, start + 1))
  ELSE Fail("CommentNotUtf8", start, line_end(inp, start + 1))

RECURSIVE de_spaces(_, _, _)
de_spaces(inp, position, enc) ==
  IF position >= Len(inp) THEN Ok(<<>>, position)
  ELSE IF enc \in {"Canonic", "Compact"}
    THEN IF is_ws(inp[position + 1]) \/ inp[position + 1] = 35
           THEN Fail("Whitespace", position, position)
         ELSE Ok(<<>>, position)
  ELSE IF is_ws(inp[position + 1]) THEN de_spaces(inp, position + 1, enc)
  ELSE IF inp[position + 1] = 35
    THEN IF de_comment(inp, position).ok
           THEN de_spaces(inp, de_comment(inp, position).pos, enc)
         ELSE de_comment(inp, position)
  ELSE Ok(<<>>, position)

de_parse_nil(inp, position, enc) ==
  IF ~next(inp, position).ok THEN next(inp, position)
  ELSE IF inp[position + 1] = 172
    THEN IF enc = "HumanReadable" THEN Fail("Compact", position, position + 1)
         ELSE Ok(Nil, position + 1)
  ELSE IF inp[position + 1] = 110
    THEN IF enc \in {"Canonic", "Compact"}
           THEN Fail("HumanReadable", position, position + 1)
         ELSE IF expect_bytes(inp, position + 1, <<105, 108>>, "ExpectedNil").ok
           THEN Ok(Nil, position + 3)
         ELSE expect_bytes(inp, position + 1, <<105, 108>>, "ExpectedNil")
  ELSE Fail("ExpectedNil", position, position + 1)

(* deserialize_any once spaces has returned sp. *)
de_value(inp, sp, enc) ==
  IF ~sp.ok THEN sp
  ELSE IF ~peek(inp, sp.pos).ok THEN peek(inp, sp.pos)
  ELSE IF inp[sp.pos + 1] \in {172, 110} THEN de_parse_nil(inp, sp.pos, enc)
  ELSE Fail("Syntax", sp.pos, sp.pos)

de_deserialize_any(inp, position, enc) == de_value(inp, de_spaces(inp, position, enc), enc)

Encodings == {"Canonic", "Compact", "HumanReadable", "Hybrid"}

MaxSpaces == 5

(* '#', LF, a space, a letter, the two bytes of a char of two bytes, the
   second of which is also the compact nil. *)
SpaceBytes == {35, 10, 32, 120, 195, 172}

(* nil in text and the compact nil. *)
NilEncodings == {<<110, 105, 108>>, <<172>>}

InitEncoding ==
  /\ a = Nil
  /\ b = Nil
  /\ c = Nil
  /\ op = "new"
  /\ res = "none"
  /\ NoCodec

(* Value::deserialize on VVDeserializer::new(input, enc) for an encoding of
   nil behind any bytes; tv keeps the bytes in front, res the encoding. *)
DeserializeEncoding ==
  /\ op = "new"
  /\ \E front \in SeqsUpTo(SpaceBytes, MaxSpaces), v \in NilEncodings, enc \in Encodings :
      /\ tv' = front
      /\ res' = enc
      /\ input' = front \o v
      /\ decoded' = de_deserialize_any(input', 0, enc)
      /\ op' = "de_deserialize_any"
      /\ UNCHANGED <<a, b, c, indentation, out, p, serializer, collections>>

NextEncoding == DeserializeEncoding

SpecEncoding == InitEncoding /\ [][NextEncoding]_vars

(* Whether the bytes from position on are a run of white space and of
   comments, each comment a '#' and the bytes up to and including the next
   LF, which are valid UTF-8. *)
RECURSIVE spaces_run(_, _)
spaces_run(bytes, position) ==
  IF position >= Len(bytes) THEN position = Len(bytes)
  ELSE IF is_ws(bytes[position + 1]) THEN spaces_run(bytes, position + 1)
  ELSE IF bytes[position + 1] = 35
    THEN /\ bytes[line_end(bytes, position + 1)] = 10
         /\ de_comment_line(bytes, position).ok
         /\ spaces_run(bytes, line_end(bytes, position + 1))
  ELSE FALSE

(* C27: in the HumanReadable and Hybrid modes a comment reaches up to and
   including the next LF, or to the end of the input, and is accepted iff
   exactly those bytes are valid UTF-8, whatever follows the LF: a run of
   white space and comments followed by the encoding of a value decodes to
   that value. *)
C27_Claim ==
  (/\ op = "de_deserialize_any"
   /\ res \in {"HumanReadable", "Hybrid"}
   /\ spaces_run(tv, 0)
   /\ res = "HumanReadable" => Len(input) - Len(tv) = 3) =>
    /\ decoded.ok
    /\ decoded.val = Nil
    /\ decoded.pos = Len(input)

(***************************************************************************)
(* The human-readable serializer call by call: Serialize for Value calls   *)
(* serialize_seq or serialize_map, serialize_element or serialize_key and  *)
(* serialize_value for every element, which serialize the element in turn, *)
(* and end.  collections holds, for every collection that has started and  *)
(* not ended, the value, the index i of its next element, whether its next *)
(* call is serialize_key or serialize_value, the call of the collection    *)
(* around it that serializes it (how) with the multiline flag that call    *)
(* has saved (old), and the flag its own start has set (started).          *)
(***************************************************************************)

(* serialize_seq or serialize_map of the collection v. *)
start(s, v, n) ==
  IF tag(v) = TArray THEN human_serialize_seq(s, Len(payload(v)), n)
  ELSE human_serialize_map(s, Len(payload(v)), n)

(* serialize_element, serialize_key or serialize_value up to the call of
   value.serialize. *)
entered(s, how, n) ==
  IF how \in {"serialize_element", "serialize_key"} /\ s.multiline
    THEN indent(s, n)
  ELSE s

(* The rest of the call that does not put the saved flag back. *)
returned_keep(s, how, old, n) ==
  IF how = "to_vec" THEN s
  ELSE IF how = "serialize_key" THEN push(s, IF n # 0 THEN <<58, 32>> ELSE <<58>>)
  ELSE IF s.multiline THEN push(s, IF n # 0 THEN <<44, 10>> ELSE <<44>>)
  ELSE s

(* The rest of the call after value.serialize has returned: old is the
   flag saved before it. *)
returned(s, how, old, n) ==
  IF how = "to_vec" THEN s
  ELSE IF how = "serialize_key"
    THEN push([s EXCEPT !.multiline = old], IF n # 0 THEN <<58, 32>> ELSE <<58>>)
  ELSE IF old
    THEN push([s EXCEPT !.multiline = old], IF n # 0 THEN <<44, 10>> ELSE <<44>>)
  ELSE [s EXCEPT !.multiline = old]

(* The call how of the value v: a collection starts and stays open, any
   other value is written and the call returns. *)
serialize_call(s, v, how, n) ==
  IF is_collection(v) THEN start(entered(s, how, n), v, n)
  ELSE returned(human_serialize(v, entered(s, how, n), n), how, s.multiline, n)

opened(s, v, how, n) ==
  IF is_collection(v)
    THEN <<[value |-> v, i |-> 1, key |-> TRUE, how |-> how, old |-> s.multiline,
            started |-> serialize_call(s, v, how, n).multiline]>>
  ELSE <<>>

innermost == collections[Len(collections)]

around == SubSeq(collections, 1, Len(collections) - 1)

(* The widest indentation explored call by call. *)
MaxIndent == 2

InitIndent ==
  /\ a = Nil
  /\ b = Nil
  /\ c = Nil
  /\ op = "new"
  /\ res = "none"
  /\ NoCodec

(* to_vec: a new serializer, and value.serialize on it. *)
ToVec ==
  /\ op = "new"
  /\ \E v \in HumanValues, n \in 0..MaxIndent :
      /\ a' = v
      /\ indentation' = n
      /\ serializer' = serialize_call(VVSerializer_new, v, "to_vec", n)
      /\ collections' = opened(VVSerializer_new, v, "to_vec", n)
      /\ out' = IF is_collection(v) THEN out ELSE serializer'.out
  /\ op' = "to_vec"
  /\ UNCHANGED <<b, c, res, tv, input, decoded, p>>

(* SerializeSeq::serialize_element on the next element of the innermost
   array. *)
SerializeElement ==
  /\ op # "new"
  /\ collections # <<>>
  /\ tag(innermost.value) = TArray
  /\ innermost.i <= Len(payload(innermost.value))
  /\ serializer' = serialize_call(serializer, payload(innermost.value)[innermost.i],
                                  "serialize_element", indentation)
  /\ collections' = Append(around, [innermost EXCEPT !.i = @ + 1])
                      \o opened(serializer, payload(innermost.value)[innermost.i],
                                "serialize_element", indentation)
  /\ op' = "serialize_element"
  /\ UNCHANGED <<a, b, c, res, tv, indentation, out, input, decoded, p>>

(* SerializeMap::serialize_key on the key of the next entry of the
   innermost map. *)
SerializeKey ==
  /\ op # "new"
  /\ collections # <<>>
  /\ tag(innermost.value) = TMap
  /\ innermost.key
  /\ innermost.i <= Len(payload(innermost.value))
  /\ serializer' = serialize_call(serializer, payload(innermost.value)[innermost.i][1],
                                  "serialize_key", indentation)
  /\ collections' = Append(around, [innermost EXCEPT !.key = FALSE])
                      \o opened(serializer, payload(innermost.value)[innermost.i][1],
                                "serialize_key", indentation)
  /\ op' = "serialize_key"
  /\ UNCHANGED <<a, b, c, res, tv, indentation, out, input, decoded, p>>

(* SerializeMap::serialize_value on the value of that entry. *)
SerializeValue ==
  /\ op # "new"
  /\ collections # <<>>
  /\ tag(innermost.value) = TMap
  /\ ~innermost.key
  /\ serializer' = serialize_call(serializer, payload(innermost.value)[innermost.i][2],
                                  "serialize_value", indentation)
  /\ collections' = Append(around, [innermost EXCEPT !.key = TRUE, !.i = @ + 1])
                      \o opened(serializer, payload(innermost.value)[innermost.i][2],
                                "serialize_value", indentation)
  /\ op' = "serialize_value"
  /\ UNCHANGED <<a, b, c, res, tv, indentation, out, input, decoded, p>>

(* Whether every element of the innermost collection is written: end is
   the call that follows. *)
at_end ==
  /\ collections # <<>>
  /\ innermost.key
  /\ innermost.i > Len(payload(innermost.value))

(* SerializeSeq::end or SerializeMap::end of the innermost collection, and
   the rest of the call that has serialized it. *)
End ==
  /\ op # "new"
  /\ at_end
  /\ serializer' = returned(end(serializer, indentation,
                                IF tag(innermost.value) = TArray THEN 93 ELSE 125),
                            innermost.how, innermost.old, indentation)
  /\ collections' = around
  /\ out' = IF around = <<>> THEN serializer'.out ELSE out
  /\ op' = "end"
  /\ UNCHANGED <<a, b, c, res, tv, indentation, input, decoded, p>>

NextIndent == ToVec \/ SerializeElement \/ SerializeKey \/ SerializeValue \/ End

SpecIndent == InitIndent /\ [][NextIndent]_vars

(* The collections of two or more elements that have started and not
   ended. *)
open_long == {k \in DOMAIN collections : Len(payload(collections[k].value)) >= 2}

(* What the serializer has written when the top-level value is finished is
   what Serialize for Value writes as a whole. *)
SameAsToVec ==
  (op # "new" /\ collections = <<>>) =>
    /\ out = serializer.out
    /\ out = human_to_vec(a, indentation)

(* C28: while any Value is serialized, current_indentation is the number of
   open collections of two or more elements, is never below 0, and is 0
   again when the top-level value is finished; the end of every collection
   finds the multiline flag that the start of that collection has set,
   whatever collections were serialized inside it. *)
C28_Theorem ==
  op # "new" =>
    /\ serializer.current_indentation = Cardinality(open_long)
    /\ serializer.current_indentation >= 0
    /\ collections = <<>> => serializer.current_indentation = 0
    /\ at_end => serializer.multiline = innermost.started

(* The end of an array of one element comes next, after the array of two
   elements that is its element was serialized inside it: that one has set
   the flag and raised current_indentation, and both are back. *)
C28_Witness ==
  /\ op = "end"
  /\ Len(collections) = 1
  /\ at_end
  /\ ~innermost.started
  /\ innermost.value = Array(<<Array(<<Int64(i64(0)), Int64(i64(1))>>)>>)
  /\ indentation = 2
  /\ ~serializer.multiline
  /\ serializer.current_indentation = 0
  /\ serializer.out = <<91, 91, 10, 32, 32, 48, 44, 10, 32, 32, 49, 44, 10, 93>>

(***************************************************************************)
(* Keys that occur more than once among the entries of a map or a set on   *)
(* the wire, in the runs of SpecTestValue.                                 *)
(***************************************************************************)

(* The key and the value of the i-th entry that the TestValue t, a set or a
   map, puts on the wire. *)
wire_key(t, i) ==
  IF kind(t) = KSet THEN to_value(content(t)[i]) ELSE to_value(content(t)[i][1])

wire_value(t, i) ==
  IF kind(t) = KSet THEN Nil ELSE to_value(content(t)[i][2])

occurrences(t, k) == {i \in 1..Len(content(t)) : eq(wire_key(t, i), k)}

last_occurrence(t, k) ==
  CHOOSE i \in occurrences(t, k) : \A j \in occurrences(t, k) : j <= i

repeats(t) ==
  \E i \in 1..Len(content(t)) : Cardinality(occurrences(t, wire_key(t, i))) >= 2

(* The entries of the map m whose key equals k. *)
bound(m, k) == {j \in 1..Len(payload(m)) : eq(payload(m)[j][1], k)}

(* C29: decoding a compact map or set whose entries on the wire repeat a
   key, keys being the same when they are equal as Values, succeeds, and
   the map decoded holds every key of the wire exactly once, with the value
   of the last entry of the wire that has this key. *)
C29_Theorem ==
  (op = "deserialize_valid" /\ kind(tv) \in {KSet, KMap} /\ repeats(tv)) =>
    /\ decoded.ok
    /\ decoded.pos = Len(out)
    /\ tag(decoded.val) = TMap
    /\ \A i \in 1..Len(content(tv)) :
         /\ Cardinality(bound(decoded.val, wire_key(tv, i))) = 1
         /\ \A j \in bound(decoded.val, wire_key(tv, i)) :
              eq(payload(decoded.val)[j][2],
                 wire_value(tv, last_occurrence(tv, wire_key(tv, i))))

(* A map of two entries was decoded whose keys are the int 1, inline in
   the first and in two bytes in the second, with the values nil and 1: the
   map decoded has the one entry 1: 1. *)
C29_Witness ==
  /\ op = "deserialize_valid"
  /\ tv = TestMap(<<<<TestInt(i64(1), 0), TestNil>>,
                    <<TestInt(i64(1), 2), TestInt(i64(1), 1)>>>>, 0)
  /\ repeats(tv)
  /\ decoded.ok
  /\ decoded.val = Map(<<<<Int64(i64(1)), Int64(i64(1))>>>>)

====
